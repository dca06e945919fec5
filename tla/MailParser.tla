----------------------------- MODULE MailParser -----------------------------
(***************************************************************************)
(* What becomes of a message that is stored: the rules that extract its    *)
(* results, the language model that is asked when they find too little,    *)
(* its circuit breaker, the tasks the message is matched with, and the new *)
(* parses of an old message.                                               *)
(*                                                                         *)
(* A parse is a session of several steps.  The parse of a new message has  *)
(* the write lock from the start (the message has been inserted); a new    *)
(* parse takes it when it deletes the old results, or at its commit when   *)
(* there are none, and keeps it while the model is asked.                  *)
(***************************************************************************)
EXTENDS Integers, Sequences, FiniteSets, SequencesExt

CONSTANTS
  Rules,        \* rows of parser_rules, numbered by created_at
  Priorities,   \* values of ParserRule.priority
  Messages,     \* messages of one mailbox
  Applicants,   \* rows of registration_tasks for that mailbox
  Parsers,      \* sessions: queue workers, API handlers
  Values,       \* what may be extracted
  OtpLike,      \* the values _looks_like_otp() is true of
  Finds,        \* the value a rule finds in a message, NoValue if it does not match
  OutputType,   \* ParserRule.output_type
  Confidence,   \* the confidence of a rule's hits, in percent
  Threshold,    \* llm_confidence_threshold, in percent
  MaxResults,   \* results of one parse: 5
  MaxFailures,  \* llm_max_consecutive_failures
  MaxParses,    \* parses of a message in this instance
  MaxRaises,    \* parses and sessions that fail in this instance
  NoValue       \* NULL

ResultTypes == {"OTP", "URL", "SECURITY_EVENT", "ORDER_ID", "ACTIVATION_LINK", "CUSTOM"}

ASSUME ParserAssumption ==
  /\ Rules \subseteq Nat /\ NoValue \notin Rules /\ Priorities \subseteq Nat
  /\ NoValue \notin Values /\ NoValue \notin Messages /\ NoValue \notin Parsers
  /\ Finds \in [Rules -> [Messages -> Values \cup {NoValue}]]
  /\ OtpLike \subseteq Values
  /\ OutputType \in [Rules -> ResultTypes]
  /\ Confidence \in [Rules -> 0..100] /\ Threshold \in 0..100
  /\ MaxResults \in Nat \ {0} /\ MaxFailures \in Nat \ {0}
  /\ MaxParses \in Nat /\ MaxRaises \in Nat /\ IsFiniteSet(Parsers)

VARIABLES
  active,    \* the rules whose status is active
  priority,  \* ParserRule.priority
  status,    \* Message.parse_status, "NONE" before the message is stored
  category,  \* Message.category
  received,  \* Message.received_at, as match_mail() reads it
  results,   \* the rows of parse_results for a message
  task,      \* RegistrationTask: its state and the result it refers to
  created,   \* RegistrationTask.created_at
  parse,     \* what each session holds
  writer,    \* the session that holds the write lock
  failures,  \* _consecutive_failures
  open,      \* _circuit_open
  now,       \* the clock: tasks created so far
  parses,    \* history: parses begun of each message
  crossed,   \* history: messages two parses have overlapped on
  halved,    \* history: messages whose newest parse was stored although it failed
  raised,    \* history: calls of the model that raised since one succeeded
  faults     \* history: sessions that have failed

ruleVars == <<active, priority>>
messageVars == <<status, category, received, results>>
taskVars == <<task, created, now>>
breakerVars == <<failures, open, raised>>
parserVars ==
  <<ruleVars, messageVars, taskVars, breakerVars, parse, writer, parses, crossed, halved, faults>>

-----------------------------------------------------------------------------
(* Rules *)

\* ORDER BY priority, created_at
Before(q, r) == priority[q] < priority[r] \/ (priority[q] = priority[r] /\ q < r)

Hits(r, e) == Finds[r][e] # NoValue

RuleResult(r, e, n) ==
  [message |-> e, parse |-> n, rule |-> r, type |-> OutputType[r], value |-> Finds[r][e]]

\* (mutant: the limit is looked at before the result is added)
OneMore(found) == Len(found) > MaxResults

\* "if len(results) >= 5: break"
Enough(found) == Len(found) >= MaxResults

\* The last of some rules in that order.
LastRule(rules) == CHOOSE r \in rules : \A q \in rules \ {r} : Before(q, r)

\* The loop of parse_message() over load_active_rules(): what a rule adds to what
\* those before it have found.
RuleResults(e, n) ==
  MapThenFoldSet(LAMBDA r, found : IF Enough(found) \/ ~Hits(r, e) THEN found
                                   ELSE Append(found, RuleResult(r, e, n)),
                 <<>>, LAMBDA r : r, LastRule, active)

\* A result is as sure as the rule that found it.
Unsure(found) == \A i \in DOMAIN found : Confidence[found[i].rule] < Threshold

\* category_for()
CategoryFor(types) ==
  IF types \cap {"OTP", "ACTIVATION_LINK"} # {} THEN "verification"
  ELSE IF "SECURITY_EVENT" \in types THEN "security"
  ELSE IF "URL" \in types THEN "link" ELSE "normal"

Types(found) == {x.type : x \in found}

-----------------------------------------------------------------------------
(* The language model *)

LlmResult(e, n, type, value) ==
  [message |-> e, parse |-> n, rule |-> NoValue, type |-> type, value |-> value]

\* (mutant: an empty value is a value)
AddedEmpty(found, x) ==
  IF \E i \in DOMAIN found : found[i].value = x.value THEN found ELSE Append(found, x)

\* An empty value is not added, nor one that some result has already.
Added(found, x) ==
  IF x.value = NoValue \/ (\E i \in DOMAIN found : found[i].value = x.value) THEN found
  ELSE Append(found, x)

-----------------------------------------------------------------------------
(* Sessions *)

Parse(stage, message, number, by, old, found) ==
  [stage |-> stage, message |-> message, number |-> number, by |-> by, old |-> old,
   found |-> found]

NoParse == Parse("none", NoValue, 0, "none", {}, <<>>)

\* The parse with these results, and what it does next.
Found(p, stage, found) == Parse(stage, p.message, p.number, p.by, p.old, found)

ParserInit ==
  /\ active = {} /\ priority \in [Rules -> Priorities]
  /\ status = [e \in Messages |-> "NONE"]
  /\ category = [e \in Messages |-> "normal"]
  /\ received = [e \in Messages |-> 0]
  /\ results = [e \in Messages |-> {}]
  /\ task = [t \in Applicants |-> [state |-> "NONE", result |-> NoValue]]
  /\ created = [t \in Applicants |-> 0]
  /\ parse = [s \in Parsers |-> NoParse]
  /\ writer = NoValue
  /\ failures = 0 /\ open = FALSE /\ now = 0
  /\ parses = [e \in Messages |-> 0]
  /\ crossed = {} /\ halved = {} /\ raised = 0 /\ faults = 0

CanWrite(s) == writer \in {NoValue, s}

\* POST, PATCH and DELETE of /parser-rules
ChangeRule(r, on, p) ==
  /\ writer = NoValue
  /\ active' = IF on THEN active \cup {r} ELSE active \ {r}
  /\ priority' = [priority EXCEPT ![r] = p]
  /\ UNCHANGED <<messageVars, taskVars, breakerVars, parse, writer, parses, crossed, halved, faults>>

\* create_task() with a mailbox
CreateApplicant(t) ==
  /\ task[t].state = "NONE" /\ writer = NoValue
  /\ task' = [task EXCEPT ![t] = [state |-> "WAITING_EMAIL", result |-> NoValue]]
  /\ now' = now + 1
  /\ created' = [created EXCEPT ![t] = now + 1]
  /\ UNCHANGED <<ruleVars, messageVars, breakerVars, parse, writer, parses, crossed, halved, faults>>

\* ingest_message() inserts a message.  Its received_at is what its Date header says,
\* for IMAP moved to the time zone of the server, and cut off at the present, or the
\* present if there is none: any time up to now, before or after it has arrived.
IngestNew(s, e, time) ==
  /\ parse[s] = NoParse /\ writer = NoValue
  /\ status[e] = "NONE" /\ time \in 0..now /\ parses[e] < MaxParses
  /\ writer' = s
  /\ received' = [received EXCEPT ![e] = time]
  /\ parses' = [parses EXCEPT ![e] = parses[e] + 1]
  /\ parse' = [parse EXCEPT ![s] = Parse("rules", e, parses[e] + 1, "ingest", {}, <<>>)]
  /\ UNCHANGED <<ruleVars, status, category, results, taskVars, breakerVars, crossed, halved, faults>>

\* run_parse() of a job and POST /messages/{id}/reparse load the message and its results.
ParseAgain(s, e, by) ==
  /\ parse[s] = NoParse
  /\ status[e] # "NONE" /\ parses[e] < MaxParses
  /\ parses' = [parses EXCEPT ![e] = parses[e] + 1]
  /\ parse' = [parse EXCEPT ![s] = Parse("rules", e, parses[e] + 1, by, results[e], <<>>)]
  /\ crossed' = IF \E o \in Parsers : parse[o].message = e THEN crossed \cup {e} ELSE crossed
  /\ UNCHANGED <<ruleVars, messageVars, taskVars, breakerVars, writer, halved, faults>>

\* The SELECT of the rules flushes the deletion of the old results, which takes
\* the lock.  What the rules find decides whether the model is asked, if it may be.
ApplyRules(s) ==
  LET p == parse[s]
      found == RuleResults(p.message, p.number) IN
  /\ p.stage = "rules"
  /\ p.old # {} => CanWrite(s)
  /\ writer' = IF p.old # {} THEN s ELSE writer
  /\ parse' = [parse EXCEPT ![s] = Found(p, IF Unsure(found) /\ ~open THEN "llm" ELSE "store", found)]
  /\ UNCHANGED <<ruleVars, messageVars, taskVars, breakerVars, parses, crossed, halved, faults>>

\* (mutant: one failure more is borne)
OneFailureMore(n) == n > MaxFailures

TooMany(n) == n >= MaxFailures

\* llm_extract() catches an exception and counts it.
LlmRaises(s) ==
  /\ parse[s].stage = "llm"
  /\ failures' = failures + 1 /\ raised' = raised + 1
  /\ open' = (open \/ TooMany(failures + 1))
  /\ parse' = [parse EXCEPT ![s] = Found(parse[s], "store", parse[s].found)]
  /\ UNCHANGED <<ruleVars, messageVars, taskVars, writer, parses, crossed, halved, faults>>

\* An HTTP status other than 200, or a reply that is not JSON: not counted.
LlmQuiet(s) ==
  /\ parse[s].stage = "llm"
  /\ parse' = [parse EXCEPT ![s] = Found(parse[s], "store", parse[s].found)]
  /\ UNCHANGED <<ruleVars, messageVars, taskVars, breakerVars, writer, parses, crossed, halved, faults>>

\* A code, a link, both or neither.  The circuit stays as it is.
LlmAnswers(s, code, link) ==
  LET p == parse[s]
      type == IF code \in OtpLike THEN "OTP" ELSE "CUSTOM"
      coded == Added(p.found, LlmResult(p.message, p.number, type, code)) IN
  /\ p.stage = "llm"
  /\ failures' = 0 /\ raised' = 0 /\ open' = open
  /\ parse' = [parse EXCEPT ![s] =
       Found(p, "store", Added(coded, LlmResult(p.message, p.number, "ACTIVATION_LINK", link)))]
  /\ UNCHANGED <<ruleVars, messageVars, taskVars, writer, parses, crossed, halved, faults>>

-----------------------------------------------------------------------------
(* Storing the results *)

\* The tasks match_mail() may bind the message to.
Matchable(e) ==
  {t \in Applicants : task[t].state = "WAITING_EMAIL" /\ created[t] <= received[e]}

\* match_mail() for the tasks that have not expired and whose match_json fits.
MatchMail(chosen, found) ==
  task' = [t \in Applicants |->
             IF t \notin chosen THEN task[t]
             ELSE IF found = <<>> THEN [state |-> "EMAIL_RECEIVED", result |-> NoValue]
             ELSE [state |-> "COMPLETED", result |-> found[1]]]

\* (mutant: the old results are kept)
OldKept(p) == results[p.message]

\* (mutant: the results of the model are not added to the session)
OfRules(found) == {x \in Range(found) : x.rule # NoValue}

Stored(found) == Range(found)

\* Only the results the session has loaded are deleted.
Remaining(p) == results[p.message] \ p.old

\* The commit of a parse, as far as it has come.
StoreResults(s, outcome, kind) ==
  LET p == parse[s] IN
  /\ CanWrite(s)
  /\ results' = [results EXCEPT ![p.message] = Remaining(p) \cup Stored(p.found)]
  /\ status' = [status EXCEPT ![p.message] = outcome]
  /\ category' = [category EXCEPT ![p.message] = kind]
  /\ parse' = [parse EXCEPT ![s] = NoParse]
  /\ writer' = NoValue
  /\ UNCHANGED <<ruleVars, received, created, now, parses, crossed>>

Outcome(found) == IF found = <<>> THEN "NO_MATCH" ELSE "PARSED"

CategoryOf(found) == CategoryFor(Types(Range(found)))

\* It has come to its end.
ParseCommit(s, chosen) ==
  LET p == parse[s] IN
  /\ p.stage = "store"
  /\ StoreResults(s, Outcome(p.found), CategoryOf(p.found))
  /\ chosen \subseteq Matchable(p.message) /\ MatchMail(chosen, p.found)
  /\ halved' = halved \ {p.message}
  /\ UNCHANGED <<breakerVars, faults>>

\* parse_message() raises (a value cannot be encrypted or decrypted) before it has any
\* results, or with those of the rules, when the model has answered.
HasFailed(s, by) ==
  /\ parse[s].stage \in {"rules", "llm"} /\ parse[s].by = by
  /\ IF parse[s].stage = "llm" THEN failures' = 0 /\ raised' = 0 ELSE UNCHANGED <<failures, raised>>
  /\ UNCHANGED open
  /\ faults < MaxRaises /\ faults' = faults + 1
  /\ halved' = halved \cup {parse[s].message}

\* ingest_message() goes on without results; those of the rules are stored all the same.
ParseFails(s, chosen) ==
  LET p == parse[s] IN
  /\ HasFailed(s, "ingest")
  /\ StoreResults(s, "PARSE_FAILED", CategoryOf(p.found))
  /\ chosen \subseteq Matchable(p.message) /\ MatchMail(chosen, <<>>)

\* execute_task() commits what there is: the old results are gone, and without those of
\* the rules the status and the category are still the old ones.
JobFails(s) ==
  LET p == parse[s] IN
  /\ HasFailed(s, "job")
  /\ IF p.stage = "rules" THEN StoreResults(s, status[p.message], category[p.message])
     ELSE StoreResults(s, Outcome(p.found), CategoryOf(p.found))
  /\ UNCHANGED task

\* It raises in the reparse of the API, a statement fails (and so will the commit), or
\* the process dies: all is undone.
ParseAborts(s) ==
  /\ parse[s] # NoParse
  /\ faults < MaxRaises /\ faults' = faults + 1
  /\ parse' = [parse EXCEPT ![s] = NoParse]
  /\ writer' = IF writer = s THEN NoValue ELSE writer
  /\ UNCHANGED <<ruleVars, messageVars, taskVars, breakerVars, parses, crossed, halved>>

ParseStep(s) ==
  \/ ApplyRules(s) \/ LlmRaises(s) \/ LlmQuiet(s)
  \/ \E code, link \in Values \cup {NoValue} : LlmAnswers(s, code, link)
  \/ \E chosen \in SUBSET Applicants : ParseCommit(s, chosen) \/ ParseFails(s, chosen)
  \/ JobFails(s)

ParserNext ==
  \/ \E r \in Rules, on \in BOOLEAN, p \in Priorities : ChangeRule(r, on, p)
  \/ \E t \in Applicants : CreateApplicant(t)
  \/ \E s \in Parsers :
       \/ \E e \in Messages :
            \/ \E by \in {"job", "api"} : ParseAgain(s, e, by)
            \/ \E time \in 0..now : IngestNew(s, e, time)
       \/ ParseStep(s) \/ ParseAborts(s)

ParserSpec == ParserInit /\ [][ParserNext]_parserVars

-----------------------------------------------------------------------------
(* Properties *)

ResultRows ==
  [message : Messages, parse : Nat, rule : Rules \cup {NoValue}, type : ResultTypes, value : Values]

\* Every column has a value of its type, and so has what the sessions hold.
ParserTypeOK ==
  /\ active \subseteq Rules /\ priority \in [Rules -> Priorities]
  /\ status \in [Messages -> {"NONE", "PARSED", "NO_MATCH", "PARSE_FAILED"}]
  /\ category \in [Messages -> {"verification", "security", "link", "normal"}]
  /\ received \in [Messages -> Nat] /\ created \in [Applicants -> Nat] /\ now \in Nat
  /\ results \in [Messages -> SUBSET ResultRows]
  /\ task \in [Applicants -> [state : {"NONE", "WAITING_EMAIL", "EMAIL_RECEIVED", "COMPLETED"},
                              result : ResultRows \cup {NoValue}]]
  /\ parse \in [Parsers -> [stage : {"none", "rules", "llm", "store"}, message : Messages \cup {NoValue},
                            number : Nat, by : {"none", "ingest", "job", "api"}, old : SUBSET ResultRows, found : Seq(ResultRows)]]
  /\ writer \in Parsers \cup {NoValue}
  /\ failures \in Nat /\ open \in BOOLEAN /\ raised \in Nat
  /\ parses \in [Messages -> Nat] /\ crossed \subseteq Messages /\ halved \subseteq Messages /\ faults \in Nat

\* The loop over the rules finds what the rules of the highest priority find that
\* match, whatever the operator makes of them, and no more than the limit.
BestRulesWin ==
  \A e \in Messages :
    LET hits == {r \in active : Hits(r, e)}
        best == {r \in hits : Cardinality({q \in hits : Before(q, r)}) < MaxResults}
        found == RuleResults(e, 0) IN
    /\ {found[i].rule : i \in DOMAIN found} = best
    /\ \A i, j \in DOMAIN found : i < j => Before(found[i].rule, found[j].rule)

\* A message shows the results of one parse, of which the model has repeated none,
\* however often it has been parsed and wherever parses have failed, unless two sessions
\* have parsed it at once; and its status and category are those of its results, once
\* a parse has come to its end after the last that failed and was stored.
ResultsOfOneParse ==
  \A e \in Messages \ crossed :
    LET rows == results[e] IN
    /\ \A x, y \in rows :
         /\ x.parse = y.parse
         /\ x.value = y.value /\ x.rule = NoValue => x = y
    /\ e \notin halved => (status[e] = "PARSED") = (rows # {})
    /\ e \notin halved => (category[e] = "verification") = (\E x \in rows : x.type \in {"OTP", "ACTIVATION_LINK"})

\* A task that is completed refers to a result that exists, until its message is
\* parsed again.
ResultOfTask ==
  \A t \in Applicants :
    task[t].result # NoValue =>
      LET x == task[t].result IN x \in results[x.message] \/ parses[x.message] > x.parse

\* Until the model answers, no more calls raise than the breaker bears, but for those
\* that are under way when the circuit opens.  (Calls that fail without raising, with an
\* HTTP status or a reply that is no JSON, are neither counted nor bounded: LlmQuiet.)
RaisesBounded == raised <= MaxFailures + Cardinality(Parsers) - 1
=============================================================================
