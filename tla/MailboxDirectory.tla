-------------------------- MODULE MailboxDirectory --------------------------
(***************************************************************************)
(* How mailboxes come into being and go: the API, the import of batches,   *)
(* the inbound mail that finds its mailbox or makes one, aliases, and the  *)
(* hard delete.  All of them look first and write later, and rely on the   *)
(* unique indexes and the foreign keys of the database for what happens in *)
(* between.                                                                *)
(*                                                                         *)
(* As in TaskPool, what a session has read may be old; from its first      *)
(* INSERT or UPDATE (owner = s) to its commit it is alone.                 *)
(***************************************************************************)
EXTENDS Integers, Sequences, FiniteSets

CONSTANTS
  Addresses,  \* e-mail addresses
  BaseOf,     \* split_plus_alias(): user+tag@domain to user@domain
  AliasFor,   \* the addresses POST /aliases is called with in this instance
  MaxBoxes,   \* mailboxes that are created in this instance
  Batches,    \* import batches
  Lines,      \* what parse_lines() makes of each: the address, which may be
              \* EMPTY or MALFORMED, and whether all mapped fields are filled
  Clients,    \* sessions of API handlers and queue workers
  MaxDeaths,  \* sessions that die in this instance
  Nothing     \* NULL

Ids == 1..MaxBoxes

ASSUME DirectoryAssumption ==
  /\ AliasFor \subseteq Addresses
  /\ MaxBoxes \in Nat /\ MaxDeaths \in Nat
  /\ BaseOf \in [Addresses -> Addresses]
  /\ Lines \in [Batches -> Seq([email : Addresses \cup {"EMPTY", "MALFORMED"}, filled : BOOLEAN])]
  /\ Nothing \notin Addresses /\ Nothing \notin Clients /\ Nothing \notin Batches /\ Nothing \notin Ids
  /\ "api" \notin Batches /\ "inbound" \notin Batches

VARIABLES
  address,    \* Mailbox.email, Nothing for an id that has no row
  maker,      \* history: who made each mailbox: "api", "inbound" or a batch
  boxes,      \* history: mailboxes created so far
  alias,      \* rows of aliases: the master of an address
  registered, \* whether the domain is registered and active
  letters,    \* the mailboxes that messages refer to
  leased,     \* the mailboxes that parse results or tasks refer to
  batch,      \* ImportBatch.status
  line,       \* ImportRow.status
  valid,      \* ImportBatch.valid_rows
  duplicate,  \* ImportBatch.duplicate_rows
  request,    \* what each session holds
  owner,      \* the session that holds the write lock
  overlap,    \* history: batches that two sessions have committed at once
  deaths      \* history: sessions that have died

boxVars == <<address, maker, boxes>>
routeVars == <<alias, registered, letters, leased>>
batchVars == <<batch, line, valid, duplicate>>
directoryVars == <<boxVars, routeVars, batchVars, request, owner, overlap, deaths>>

-----------------------------------------------------------------------------
(* What a session sees *)

Exists(id) == id \in Ids /\ address[id] # Nothing

\* find_by_email()
Taken(a) == \E id \in Ids : address[id] = a

WithAddress(a) == CHOOSE id \in Ids : address[id] = a

\* (mutant: no unique index on the address)
NeverClash(addresses) == FALSE

\* The unique index on mailboxes.email refuses another row.
Clash(addresses) == \E a \in addresses : Taken(a)

\* (mutant: foreign keys are not enforced)
Unreferenced(id) == TRUE

\* What the foreign keys let the hard delete remove.  It deletes the messages
\* itself, but neither their parse results nor tasks and aliases.
Deletable(id) == id \notin leased /\ \A a \in Addresses : alias[a] # id

Masters(a) ==
  IF alias[a] # Nothing /\ Exists(alias[a]) THEN {alias[a]}
  ELSE IF Taken(a) THEN {WithAddress(a)}
  ELSE IF Taken(BaseOf[a]) THEN {WithAddress(BaseOf[a])} ELSE {}

-----------------------------------------------------------------------------
(* Batches *)

\* _validate_row().  All fields of the mapping are missing from a row that
\* parse_lines() could not read.
LineStatus(l) ==
  IF l.email = "EMPTY" THEN "MISSING"
  ELSE IF l.email = "MALFORMED" THEN "ERROR"
  ELSE IF ~l.filled THEN "MISSING" ELSE "VALID"

\* The first valid row with its address, which no mailbox has.
Importable(lines, i) ==
  /\ LineStatus(lines[i]) = "VALID" /\ ~Taken(lines[i].email)
  /\ \A j \in 1..(i - 1) : LineStatus(lines[j]) = "VALID" => lines[j].email # lines[i].email

PreviewStatus(lines, i) ==
  IF LineStatus(lines[i]) # "VALID" THEN LineStatus(lines[i])
  ELSE IF Importable(lines, i) THEN "VALID" ELSE "DUPLICATE"

CountOf(statuses, st) == Cardinality({i \in DOMAIN statuses : statuses[i] = st})

-----------------------------------------------------------------------------
(* Sessions *)

\* A request about an address and perhaps a mailbox.
Request(op, addr, id) ==
  [op |-> op, addr |-> addr, id |-> id, batch |-> Nothing, at |-> 0, made |-> {}, marked |-> {},
   counts |-> <<0, 0>>, seen |-> <<>>]

NoRequest == Request("none", Nothing, 0)

\* An import: the batch, the row it is at, the rows it has imported and marked,
\* and its copy of the counters and rows.
Import(op, b, at, made, marked, counts, seen) ==
  [op |-> op, addr |-> Nothing, id |-> 0, batch |-> b, at |-> at, made |-> made, marked |-> marked,
   counts |-> counts, seen |-> seen]

DirectoryInit ==
  /\ address = [id \in Ids |-> Nothing] /\ maker = [id \in Ids |-> Nothing] /\ boxes = 0
  /\ alias = [a \in Addresses |-> Nothing]
  /\ registered = TRUE
  /\ letters = {} /\ leased = {}
  /\ batch = [b \in Batches |-> "NONE"]
  /\ line = [b \in Batches |-> <<>>]
  /\ valid = [b \in Batches |-> 0] /\ duplicate = [b \in Batches |-> 0]
  /\ request = [s \in Clients |-> NoRequest]
  /\ owner = Nothing /\ overlap = {} /\ deaths = 0

Owns(s) == owner \in {Nothing, s}

\* The session keeps this, or is over.
Hold(s, r) == request' = [request EXCEPT ![s] = r]

Over(s) == Hold(s, NoRequest)

\* create_mailbox() for a set of addresses.
MakeBoxes(addresses, by) ==
  LET n == Cardinality(addresses)
      numbered == CHOOSE f \in [addresses -> 1..n] : \A a, b \in addresses : a # b => f[a] # f[b] IN
  /\ boxes + n <= MaxBoxes
  /\ boxes' = boxes + n
  /\ address' = [id \in Ids |-> IF id \in (boxes + 1)..(boxes + n)
                                THEN CHOOSE a \in addresses : boxes + numbered[a] = id ELSE address[id]]
  /\ maker' = [id \in Ids |-> IF id \in (boxes + 1)..(boxes + n) THEN by ELSE maker[id]]

\* What a session was to insert is there already: all is undone.
Refuse(s) == Over(s) /\ owner' = Nothing /\ UNCHANGED <<boxVars, routeVars, batchVars, overlap, deaths>>

-----------------------------------------------------------------------------
(* POST /mailboxes *)

CreateLook(s, a) ==
  /\ request[s] = NoRequest /\ ~Taken(a)
  /\ Hold(s, Request("create", a, 0))
  /\ UNCHANGED <<boxVars, routeVars, batchVars, owner, overlap, deaths>>

CreateInsert(s) ==
  LET r == request[s] IN
  /\ r.op = "create" /\ owner = Nothing
  /\ IF Clash({r.addr}) THEN Refuse(s)
     ELSE /\ MakeBoxes({r.addr}, "api") /\ Over(s)
          /\ UNCHANGED <<routeVars, batchVars, owner, overlap, deaths>>

-----------------------------------------------------------------------------
(* Mail *)

\* resolve_mailbox() finds a mailbox, or run_sync() loads it.
Route(s, a, id) ==
  /\ request[s] = NoRequest /\ id \in Masters(a)
  /\ Hold(s, Request("store", a, id))
  /\ UNCHANGED <<boxVars, routeVars, batchVars, owner, overlap, deaths>>

\* It finds none, and looks the domain up: for a plus address it does so once more if
\* the domain is not active.
RouteNowhere(s, a) ==
  /\ request[s] = NoRequest /\ Masters(a) = {}
  /\ registered \/ BaseOf[a] # a
  /\ Hold(s, Request(IF registered THEN "make" ELSE "again", a, 0))
  /\ UNCHANGED <<boxVars, routeVars, batchVars, owner, overlap, deaths>>

\* If it is active by then, the mailbox will be one for the plus address itself.
RouteAgain(s) ==
  /\ request[s].op = "again"
  /\ IF registered THEN Hold(s, Request("plain", request[s].addr, 0)) ELSE Over(s)
  /\ UNCHANGED <<boxVars, routeVars, batchVars, owner, overlap, deaths>>

\* The message is inserted, and with it perhaps the results and the lease of a
\* task that refer to the mailbox, if it is still there.
StoreLetter(s, used) ==
  LET r == request[s] IN
  /\ r.op = "store" /\ owner = Nothing
  /\ IF ~Exists(r.id) THEN Refuse(s)
     ELSE /\ letters' = letters \cup {r.id}
          /\ leased' = IF used THEN leased \cup {r.id} ELSE leased
          /\ Over(s)
          /\ UNCHANGED <<boxVars, alias, registered, batchVars, owner, overlap, deaths>>

\* The mailbox that resolve_mailbox() creates for a recipient nobody has.
MadeFor(r) == IF r.op = "make" THEN BaseOf[r.addr] ELSE r.addr

\* It is created with its first message, and with an alias if it is not the recipient's.
MakeAndStore(s) ==
  LET r == request[s]
      a == MadeFor(r) IN
  /\ r.op \in {"make", "plain"} /\ owner = Nothing
  /\ IF Clash({a}) \/ (a # r.addr /\ alias[r.addr] # Nothing) THEN Refuse(s)
     ELSE /\ MakeBoxes({a}, "inbound")
          /\ letters' = letters \cup {boxes + 1}
          /\ alias' = IF a # r.addr THEN [alias EXCEPT ![r.addr] = boxes + 1] ELSE alias
          /\ Over(s)
          /\ UNCHANGED <<registered, leased, batchVars, owner, overlap, deaths>>

\* POST, PATCH and DELETE of /cf-domains
ChangeDomain(on) ==
  /\ owner = Nothing /\ registered # on
  /\ registered' = on
  /\ UNCHANGED <<boxVars, alias, letters, leased, batchVars, request, owner, overlap, deaths>>

-----------------------------------------------------------------------------
(* Aliases, and the end of a mailbox *)

AliasLook(s, a, id) ==
  /\ a \in AliasFor
  /\ request[s] = NoRequest /\ Exists(id) /\ alias[a] = Nothing
  /\ Hold(s, Request("alias", a, id))
  /\ UNCHANGED <<boxVars, routeVars, batchVars, owner, overlap, deaths>>

\* The unique index and the foreign key have the last word.
AliasInsert(s) ==
  LET r == request[s] IN
  /\ r.op = "alias" /\ owner = Nothing
  /\ IF alias[r.addr] # Nothing \/ ~Exists(r.id) THEN Refuse(s)
     ELSE /\ alias' = [alias EXCEPT ![r.addr] = r.id]
          /\ Over(s)
          /\ UNCHANGED <<boxVars, registered, letters, leased, batchVars, owner, overlap, deaths>>

DeleteAlias(a) ==
  /\ owner = Nothing /\ alias[a] # Nothing
  /\ alias' = [alias EXCEPT ![a] = Nothing]
  /\ UNCHANGED <<boxVars, registered, letters, leased, batchVars, request, owner, overlap, deaths>>

\* DELETE /mailboxes/{id}?hard=true; where a foreign key is in the way it fails,
\* and changes nothing.
HardDelete(id) ==
  /\ owner = Nothing /\ Exists(id) /\ Deletable(id)
  /\ address' = [address EXCEPT ![id] = Nothing]
  /\ letters' = letters \ {id}
  /\ UNCHANGED <<maker, boxes, alias, registered, leased, batchVars, request, owner, overlap, deaths>>

-----------------------------------------------------------------------------
(* Imports *)

\* POST /imports/preview; its first INSERT comes before it looks at mailboxes.
Preview(b) ==
  LET statuses == [i \in DOMAIN Lines[b] |-> PreviewStatus(Lines[b], i)] IN
  /\ owner = Nothing /\ batch[b] = "NONE"
  /\ batch' = [batch EXCEPT ![b] = "PREVIEWED"]
  /\ line' = [line EXCEPT ![b] = statuses]
  /\ valid' = [valid EXCEPT ![b] = CountOf(statuses, "VALID")]
  /\ duplicate' = [duplicate EXCEPT ![b] = CountOf(statuses, "DUPLICATE")]
  /\ UNCHANGED <<boxVars, routeVars, request, owner, overlap, deaths>>

\* POST /imports/commit loads the batch and, later, its rows.
ImportRead(s, b) ==
  /\ request[s] = NoRequest /\ batch[b] = "PREVIEWED"
  /\ Hold(s, Import("rows", b, 0, {}, {}, <<valid[b], duplicate[b]>>, <<>>))
  /\ overlap' = IF \E o \in Clients : request[o].batch = b THEN overlap \cup {b} ELSE overlap
  /\ UNCHANGED <<boxVars, routeVars, batchVars, owner, deaths>>

ImportRows(s) ==
  LET r == request[s] IN
  /\ r.op = "rows"
  /\ Hold(s, Import("import", r.batch, 1, {}, {}, r.counts, line[r.batch]))
  /\ UNCHANGED <<boxVars, routeVars, batchVars, owner, overlap, deaths>>

\* The session goes on at row i, having imported and marked these rows.
Onward(r, op, i, made, marked) == Import(op, r.batch, i, made, marked, r.counts, r.seen)

\* The commit re-check, which sees what the session has inserted.
Rechecked(r, a) == Taken(a) \/ \E i \in r.made : Lines[r.batch][i].email = a

\* (mutant: a row that is skipped stays VALID)
NotMarked(r, i) == r.marked

Marked(r, i) == r.marked \cup {i}

\* The next row that is VALID.  The SELECT first flushes what the session has
\* changed.
ImportLook(s, i) ==
  LET r == request[s]
      dirty == r.made # {} \/ r.marked # {} IN
  /\ r.op = "import" /\ i \in r.at..Len(r.seen)
  /\ r.seen[i] = "VALID" /\ \A j \in r.at..(i - 1) : r.seen[j] # "VALID"
  /\ dirty => Owns(s)
  /\ owner' = IF dirty THEN s ELSE owner
  /\ Hold(s, IF Rechecked(r, Lines[r.batch][i].email) THEN Onward(r, "import", i + 1, r.made, Marked(r, i))
             ELSE Onward(r, "insert", i, r.made, r.marked))
  /\ UNCHANGED <<boxVars, routeVars, batchVars, overlap, deaths>>

\* create_mailbox() and the job of its health check.
ImportInsert(s) ==
  LET r == request[s] IN
  /\ r.op = "insert" /\ Owns(s)
  /\ IF Clash({Lines[r.batch][r.at].email}) THEN Refuse(s)
     ELSE /\ owner' = s
          /\ Hold(s, Onward(r, "import", r.at + 1, r.made \cup {r.at}, r.marked))
          /\ UNCHANGED <<boxVars, routeVars, batchVars, overlap, deaths>>

\* (mutant: valid_rows is not counted down)
NotCountedDown(counts, n) == <<counts[1], counts[2] + n>>

\* (mutant: the duplicates of the preview are counted down again)
CountedDownTwice(counts, n) == <<counts[1] - n - counts[2], counts[2] + n>>

Recounted(counts, n) == <<counts[1] - n, counts[2] + n>>

\* Only the columns the session has changed are written.
ImportCommit(s) ==
  LET r == request[s]
      b == r.batch
      counts == Recounted(r.counts, Cardinality(r.marked)) IN
  /\ r.op = "import" /\ \A i \in r.at..Len(r.seen) : r.seen[i] # "VALID"
  /\ Owns(s)
  /\ MakeBoxes({Lines[b][i].email : i \in r.made}, b)
  /\ batch' = [batch EXCEPT ![b] = "COMMITTED"]
  /\ line' = [line EXCEPT ![b] = [i \in DOMAIN line[b] |-> IF i \in r.marked THEN "DUPLICATE" ELSE line[b][i]]]
  /\ valid' = [valid EXCEPT ![b] = IF r.marked # {} THEN counts[1] ELSE valid[b]]
  /\ duplicate' = [duplicate EXCEPT ![b] = IF r.marked # {} THEN counts[2] ELSE duplicate[b]]
  /\ Over(s) /\ owner' = Nothing
  /\ UNCHANGED <<routeVars, overlap, deaths>>

\* The process dies, the database is locked: all is undone.
Die(s) ==
  /\ request[s] # NoRequest /\ deaths < MaxDeaths
  /\ deaths' = deaths + 1
  /\ Over(s) /\ owner' = IF owner = s THEN Nothing ELSE owner
  /\ UNCHANGED <<boxVars, routeVars, batchVars, overlap>>

-----------------------------------------------------------------------------
RequestStep(s) ==
  \/ CreateInsert(s) \/ RouteAgain(s) \/ MakeAndStore(s) \/ AliasInsert(s)
  \/ \E used \in BOOLEAN : StoreLetter(s, used)
  \/ ImportRows(s) \/ ImportInsert(s) \/ ImportCommit(s)
  \/ \E b \in Batches : \E i \in DOMAIN Lines[b] : ImportLook(s, i)

DirectoryNext ==
  \/ \E s \in Clients :
       \/ \E a \in Addresses :
            \/ CreateLook(s, a) \/ RouteNowhere(s, a)
            \/ \E id \in Ids : Route(s, a, id) \/ AliasLook(s, a, id)
       \/ \E b \in Batches : ImportRead(s, b)
       \/ RequestStep(s) \/ Die(s)
  \/ \E on \in BOOLEAN : ChangeDomain(on)
  \/ \E a \in Addresses : DeleteAlias(a)
  \/ \E id \in Ids : HardDelete(id)
  \/ \E b \in Batches : Preview(b)

DirectorySpec == DirectoryInit /\ [][DirectoryNext]_directoryVars

-----------------------------------------------------------------------------
(* Properties *)

\* Every column has a value of its type, and so has what the sessions hold.
DirectoryTypeOK ==
  /\ address \in [Ids -> Addresses \cup {Nothing}]
  /\ maker \in [Ids -> {"api", "inbound"} \cup Batches \cup {Nothing}] /\ boxes \in 0..MaxBoxes
  /\ alias \in [Addresses -> Ids \cup {Nothing}] /\ registered \in BOOLEAN
  /\ letters \subseteq Ids /\ leased \subseteq Ids
  /\ batch \in [Batches -> {"NONE", "PREVIEWED", "COMMITTED"}]
  /\ line \in [Batches -> Seq({"VALID", "DUPLICATE", "ERROR", "MISSING"})]
  /\ valid \in [Batches -> Nat] /\ duplicate \in [Batches -> Nat]
  /\ request \in [Clients -> [op : {"none", "create", "store", "make", "again", "plain", "alias", "rows", "import", "insert"},
       addr : Addresses \cup {Nothing}, id : Ids \cup {0}, batch : Batches \cup {Nothing}, at : Nat,
       made : SUBSET Nat, marked : SUBSET Nat, counts : Nat \X Nat,
       seen : Seq({"VALID", "DUPLICATE", "ERROR", "MISSING"})]]
  /\ owner \in Clients \cup {Nothing} /\ overlap \subseteq Batches /\ deaths \in Nat

\* However the API, imports and inbound mail race, an address has one mailbox.
OneMailboxPerAddress ==
  \A i, j \in Ids : address[i] # Nothing /\ address[i] = address[j] => i = j

\* No alias, message, result or task is left without its mailbox by a hard delete,
\* whenever the session that writes it has looked the mailbox up.
NoOrphans ==
  \A id \in Ids : id \in letters \cup leased \/ (\E a \in Addresses : alias[a] = id) => Exists(id)

\* The counters of a batch are those of its rows.
CountersMatchRows ==
  \A b \in Batches \ overlap :
    batch[b] # "NONE" =>
      valid[b] = CountOf(line[b], "VALID") /\ duplicate[b] = CountOf(line[b], "DUPLICATE")

\* What a batch says it has imported it has imported, all of it, once it is
\* committed, and nothing before.
ImportedAsCounted ==
  \A b \in Batches \ overlap :
    Cardinality({id \in Ids : maker[id] = b}) = IF batch[b] = "COMMITTED" THEN valid[b] ELSE 0
=============================================================================
