----------------------- MODULE MailboxDirectoryProofs -----------------------
(***************************************************************************)
(* Theorems about MailboxDirectory, for every set of addresses, sessions   *)
(* and batches, every batch and every number of mailboxes.                 *)
(***************************************************************************)
EXTENDS MailboxDirectory, FiniteSetTheorems, FunctionTheorems, TLAPS

\* The rows of a batch that may be imported.
ValidRows(b) == {i \in DOMAIN Lines[b] : LineStatus(Lines[b][i]) = "VALID"}

\* What a session may hold while o is the session that writes: rows it has
\* imported are valid, no mailbox has their addresses, and it is the one that writes.
Holdable(s, r, o) ==
  /\ r.op \in {"create", "make", "again", "plain", "alias", "store"} => r.addr \in Addresses
  /\ r.op \in {"rows", "import", "insert"} => r.batch \in Batches
  /\ r.op = "insert" => r.at \in ValidRows(r.batch)
  /\ \A i \in Nat \ {0} : i <= Len(r.seen) /\ r.seen[i] = "VALID" => i \in ValidRows(r.batch)
  /\ r.made \subseteq ValidRows(r.batch)
  /\ r.made # {} => o = s /\ \A i \in r.made : ~Taken(Lines[r.batch][i].email)

Statuses == {"VALID", "DUPLICATE", "ERROR", "MISSING"}

\* Every variable the theorems are about has a value of its type.
DirectoryTyped ==
  /\ address \in [Ids -> Addresses \cup {Nothing}] /\ boxes \in Nat
  /\ maker \in [Ids -> {"api", "inbound"} \cup Batches \cup {Nothing}]
  /\ alias \in [Addresses -> Ids \cup {Nothing}]
  /\ letters \subseteq Ids /\ leased \subseteq Ids
  /\ request = [s \in Clients |-> request[s]]
  /\ line \in [Batches -> Seq(Statuses)]

\* Only an id that has been given to a mailbox has a row.
RowsAreMade == \A id \in Ids : address[id] # Nothing => id <= boxes

\* A row of a batch that is still to be imported is one that may be.
ValidLines == \A b \in Batches : \A i \in Nat \ {0} : i <= Len(line[b]) /\ line[b][i] = "VALID" => i \in ValidRows(b)

SessionOK(s) == Holdable(s, request[s], owner)

DirectoryInv ==
  /\ DirectoryTyped /\ RowsAreMade /\ ValidLines
  /\ OneMailboxPerAddress /\ NoOrphans
  /\ \A s \in Clients : SessionOK(s)

-----------------------------------------------------------------------------
(* New mailboxes *)

\* A finite set of addresses can be numbered.
LEMMA Numbering ==
  ASSUME NEW S, IsFiniteSet(S)
  PROVE  /\ Cardinality(S) \in Nat
         /\ \E f \in [S -> 1..Cardinality(S)] : \A a, b \in S : a # b => f[a] # f[b]
<1>1. Cardinality(S) \in Nat /\ ExistsBijection(1..Cardinality(S), S)
  BY FS_CardinalityType
<1>2. ExistsBijection(S, 1..Cardinality(S))
  BY <1>1, Fun_ExistsBijSymmetric
<1>3. PICK f \in Bijection(S, 1..Cardinality(S)) : TRUE
  BY <1>2 DEF ExistsBijection
<1>4. f \in Injection(S, 1..Cardinality(S))
  BY <1>3, Fun_BijectionProperties
<1>. QED  BY <1>1, <1>4 DEF Injection, IsInjective

\* create_mailbox() gives each of the addresses one of the next ids, and leaves the
\* other mailboxes alone.
LEMMA Made ==
  ASSUME DirectoryTyped, NEW S \in SUBSET Addresses, IsFiniteSet(S), NEW by, MakeBoxes(S, by)
  PROVE  /\ boxes' \in Nat /\ boxes' = boxes + Cardinality(S) /\ boxes' <= MaxBoxes
         /\ \A id \in Ids :
              IF id \in (boxes + 1)..boxes' THEN address'[id] \in S /\ maker'[id] = by
              ELSE address'[id] = address[id] /\ maker'[id] = maker[id]
         /\ \A i, j \in (boxes + 1)..boxes' : address'[i] = address'[j] => i = j
         /\ DOMAIN address' = Ids /\ address' = [id \in Ids |-> address'[id]]
         /\ DOMAIN maker' = Ids /\ maker' = [id \in Ids |-> maker'[id]]
<1>. DEFINE n == Cardinality(S)
            numbered == CHOOSE f \in [S -> 1..n] : \A a, b \in S : a # b => f[a] # f[b]
<1>1. n \in Nat /\ boxes \in Nat /\ MaxBoxes \in Nat
  BY Numbering, DirectoryAssumption DEF DirectoryTyped
<1>2. numbered \in [S -> 1..n] /\ \A a, b \in S : a # b => numbered[a] # numbered[b]
  BY Numbering
<1>3. numbered \in Surjection(S, 1..n)
  <2>1. numbered \in Injection(S, 1..n)
    BY <1>2 DEF Injection, IsInjective
  <2>2. IsFiniteSet(1..n) /\ Cardinality(1..n) = n
    BY <1>1, FS_Interval
  <2>. HIDE DEF numbered
  <2>. QED  BY <2>1, <2>2, FS_Injection
<1>4. /\ boxes + n <= MaxBoxes /\ boxes' = boxes + n
      /\ address' = [id \in Ids |-> IF id \in (boxes + 1)..(boxes + n)
                                    THEN CHOOSE a \in S : boxes + numbered[a] = id ELSE address[id]]
      /\ maker' = [id \in Ids |-> IF id \in (boxes + 1)..(boxes + n) THEN by ELSE maker[id]]
  BY DEF MakeBoxes
<1>. HIDE DEF numbered, n
<1>5. ASSUME NEW id \in (boxes + 1)..(boxes + n)
      PROVE  id \in Ids /\ address'[id] \in S /\ boxes + numbered[address'[id]] = id /\ maker'[id] = by
  <2>1. id \in Ids
    BY <1>1, <1>4 DEF Ids
  <2>2. id - boxes \in 1..n
    BY <1>1
  <2>3. PICK a \in S : numbered[a] = id - boxes
    BY <1>3, <2>2 DEF Surjection
  <2>4. boxes + numbered[a] = id
    BY <1>1, <2>3
  <2>5. address'[id] = CHOOSE x \in S : boxes + numbered[x] = id
    BY <1>4, <2>1
  <2>. QED  BY <1>4, <2>1, <2>4, <2>5
<1>6. ASSUME NEW id \in Ids, id \notin (boxes + 1)..(boxes + n)
      PROVE  address'[id] = address[id] /\ maker'[id] = maker[id]
  BY <1>4, <1>6
<1>7. ASSUME NEW i \in (boxes + 1)..(boxes + n), NEW j \in (boxes + 1)..(boxes + n), address'[i] = address'[j]
      PROVE  i = j
  BY <1>5, <1>7
<1>8. DOMAIN address' = Ids /\ DOMAIN maker' = Ids /\ address' = [id \in Ids |-> address'[id]]
      /\ maker' = [id \in Ids |-> maker'[id]]
  BY <1>4
<1>9. boxes' \in Nat /\ boxes' = boxes + Cardinality(S) /\ boxes' <= MaxBoxes /\ boxes' = boxes + n
  BY <1>1, <1>4 DEF n
<1>. QED  BY <1>5, <1>6, <1>7, <1>8, <1>9

\* The addresses of the rows an import has made are finitely many, and addresses.
LEMMA EmailsOfRows ==
  ASSUME NEW b \in Batches, NEW rows \in SUBSET ValidRows(b)
  PROVE  /\ {Lines[b][i].email : i \in rows} \in SUBSET Addresses
         /\ IsFiniteSet({Lines[b][i].email : i \in rows})
<1>. DEFINE S == {Lines[b][i].email : i \in rows}
            f == [i \in rows |-> Lines[b][i].email]
            R == [email : Addresses \cup {"EMPTY", "MALFORMED"}, filled : BOOLEAN]
<1>1. Lines[b] \in Seq(R)
  BY DirectoryAssumption
<1>2. ASSUME NEW i \in rows
      PROVE  Lines[b][i].email \in Addresses
  <2>1. i \in DOMAIN Lines[b] /\ LineStatus(Lines[b][i]) = "VALID"
    BY DEF ValidRows
  <2>2. Lines[b][i] \in R
    <3>. HIDE DEF R
    <3>. QED  BY <1>1, <2>1
  <2>3. Lines[b][i].email \in Addresses \cup {"EMPTY", "MALFORMED"}
    BY <2>2
  <2>. QED  BY <2>1, <2>3 DEF LineStatus
<1>3. IsFiniteSet(DOMAIN Lines[b])
  <2>1. DOMAIN Lines[b] = 1..Len(Lines[b]) /\ Len(Lines[b]) \in Nat
    <3>. HIDE DEF R
    <3>. QED  BY <1>1
  <2>. QED  BY <2>1, FS_Interval
<1>4. IsFiniteSet(rows)
  BY <1>3, FS_Subset DEF ValidRows
<1>5. f \in Surjection(rows, S)
  BY DEF Surjection
<1>6. IsFiniteSet(S)
  <2>. HIDE DEF S, f
  <2>. QED  BY <1>4, <1>5, FS_Surjection
<1>. QED  BY <1>2, <1>6

-----------------------------------------------------------------------------
(* Steps *)

LEMMA DirectoryStart == DirectoryInit => DirectoryInv
<1>. SUFFICES ASSUME DirectoryInit PROVE DirectoryInv
  OBVIOUS
<1>1. DirectoryTyped /\ RowsAreMade /\ ValidLines
  BY DEF DirectoryInit, DirectoryTyped, RowsAreMade, ValidLines
<1>2. OneMailboxPerAddress
  BY DEF DirectoryInit, OneMailboxPerAddress
<1>3. NoOrphans
  BY DirectoryAssumption DEF DirectoryInit, NoOrphans
<1>4. ASSUME NEW s \in Clients
      PROVE  SessionOK(s)
  <2>1. request[s] = NoRequest
    BY DEF DirectoryInit
  <2>. QED  BY <2>1 DEF SessionOK, Holdable, NoRequest, Request
<1>. QED  BY <1>1, <1>2, <1>3, <1>4 DEF DirectoryInv

\* A session that holds nothing.
LEMMA EmptyHoldable ==
  ASSUME NEW s, NEW o
  PROVE  Holdable(s, NoRequest, o) /\ NoRequest.op = "none" /\ NoRequest.made = {}
BY DEF Holdable, NoRequest, Request

\* Only one session has made rows that are not committed: the one that writes.
LEMMA OthersHaveMadeNothing ==
  ASSUME DirectoryInv, NEW s \in Clients, NEW t \in Clients, t # s, Owns(s)
  PROVE  request[t].made = {}
BY DirectoryAssumption DEF DirectoryInv, SessionOK, Holdable, Owns

\* A step that only changes what one session holds, and perhaps takes or gives up
\* the write lock.
LEMMA HoldKeeps ==
  ASSUME DirectoryInv, NEW s \in Clients, NEW r, Hold(s, r), Holdable(s, r, owner'),
         UNCHANGED <<boxVars, alias, letters, leased, line>>,
         owner' = owner \/ (Owns(s) /\ owner' \in {Nothing, s})
  PROVE  DirectoryInv'
<1>. USE DEF DirectoryInv
<1>1. request' = [t \in Clients |-> IF t = s THEN r ELSE request[t]]
  BY DEF Hold, DirectoryTyped
<1>2. DirectoryTyped' /\ RowsAreMade' /\ ValidLines'
  BY <1>1 DEF DirectoryTyped, RowsAreMade, ValidLines, boxVars
<1>3. OneMailboxPerAddress' /\ NoOrphans'
  BY DEF OneMailboxPerAddress, NoOrphans, Exists, boxVars
<1>4. ASSUME NEW t \in Clients
      PROVE  SessionOK(t)'
  <2>1. CASE t = s
    BY <1>1, <2>1 DEF SessionOK, Holdable, Taken, boxVars
  <2>2. CASE t # s
    <3>1. Holdable(t, request[t], owner) /\ request'[t] = request[t]
      BY <1>1, <2>2 DEF SessionOK
    <3>2. owner' = owner \/ request[t].made = {}
      BY <2>2, OthersHaveMadeNothing
    <3>. QED  BY <3>1, <3>2 DEF SessionOK, Holdable, Taken, boxVars
  <2>. QED  BY <2>1, <2>2
<1>. QED  BY <1>2, <1>3, <1>4

\* A session refuses, or is over without a trace.
LEMMA OverKeeps ==
  ASSUME DirectoryInv, NEW s \in Clients, Over(s), UNCHANGED <<boxVars, alias, letters, leased, line>>,
         owner' = owner \/ (Owns(s) /\ owner' \in {Nothing, s})
  PROVE  DirectoryInv'
BY EmptyHoldable, HoldKeeps DEF Over

\* A step that changes aliases, messages and what refers to mailboxes, perhaps ends
\* a session that has made nothing, and leaves no orphan.
LEMMA RouteKeeps ==
  ASSUME DirectoryInv, UNCHANGED <<boxVars, line, owner>>,
         request' = request \/ \E s \in Clients : Over(s),
         alias' \in [Addresses -> Ids \cup {Nothing}], letters' \subseteq Ids, leased' \subseteq Ids,
         NoOrphans'
  PROVE  DirectoryInv'
<1>. USE DEF DirectoryInv
<1>1. /\ request' = [t \in Clients |-> request'[t]]
      /\ \A t \in Clients : request'[t] = request[t] \/ request'[t] = NoRequest
  BY DEF Over, Hold, DirectoryTyped
<1>2. DirectoryTyped' /\ RowsAreMade' /\ ValidLines'
  BY <1>1 DEF DirectoryTyped, RowsAreMade, ValidLines, boxVars
<1>3. OneMailboxPerAddress'
  BY DEF OneMailboxPerAddress, Exists, boxVars
<1>4. ASSUME NEW t \in Clients
      PROVE  SessionOK(t)'
  <2>1. Holdable(t, request'[t], owner)
    BY <1>1, EmptyHoldable DEF SessionOK
  <2>. QED  BY <2>1 DEF SessionOK, Holdable, Taken, boxVars
<1>. QED  BY <1>2, <1>3, <1>4

\* A session that creates mailboxes for addresses nobody has, and what else it
\* writes with them.
LEMMA MakeKeeps ==
  ASSUME DirectoryInv, NEW s \in Clients, Owns(s), Over(s), owner' = Nothing,
         NEW S \in SUBSET Addresses, IsFiniteSet(S), \A a \in S : ~Taken(a),
         NEW by \in {"api", "inbound"} \cup Batches,
         MakeBoxes(S, by),
         alias' \in [Addresses -> Ids \cup {Nothing}],
         \A a \in Addresses : alias'[a] = alias[a] \/ alias'[a] \in (boxes + 1)..boxes',
         letters' \subseteq letters \cup (boxes + 1)..boxes', leased' = leased,
         line' \in [Batches -> Seq(Statuses)], ValidLines'
  PROVE  DirectoryInv'
<1>. USE DEF DirectoryInv
<1>1. /\ boxes \in Nat /\ boxes' \in Nat /\ boxes' >= boxes /\ boxes' <= MaxBoxes /\ MaxBoxes \in Nat
      /\ \A id \in (boxes + 1)..boxes' : id \in Ids
  <2>1. Cardinality(S) \in Nat
    BY FS_CardinalityType
  <2>2. boxes' \in Nat /\ boxes' = boxes + Cardinality(S) /\ boxes' <= MaxBoxes
    BY Made
  <2>3. boxes \in Nat /\ MaxBoxes \in Nat
    BY DirectoryAssumption DEF DirectoryTyped
  <2>. QED  BY <2>1, <2>2, <2>3 DEF Ids
<1>2. \A id \in Ids :
        IF id \in (boxes + 1)..boxes' THEN address'[id] \in S /\ maker'[id] = by
        ELSE address'[id] = address[id] /\ maker'[id] = maker[id]
  BY Made
<1>3. request' = [t \in Clients |-> IF t = s THEN NoRequest ELSE request[t]]
  BY DEF Over, Hold, DirectoryTyped
<1>4. DirectoryTyped'
  <2>1. address' \in [Ids -> Addresses \cup {Nothing}]
    <3>1. address' = [id \in Ids |-> address'[id]]
      BY Made
    <3>2. \A id \in Ids : address'[id] \in Addresses \cup {Nothing}
      BY <1>2 DEF DirectoryTyped
    <3>. QED  BY <3>1, <3>2
  <2>2. maker' \in [Ids -> {"api", "inbound"} \cup Batches \cup {Nothing}]
    <3>1. maker' = [id \in Ids |-> maker'[id]]
      BY Made
    <3>2. \A id \in Ids : maker'[id] \in {"api", "inbound"} \cup Batches \cup {Nothing}
      BY <1>2 DEF DirectoryTyped
    <3>. QED  BY <3>1, <3>2
  <2>3. letters' \subseteq Ids
    BY <1>1 DEF DirectoryTyped
  <2>. QED  BY <1>1, <1>3, <2>1, <2>2, <2>3 DEF DirectoryTyped
<1>5. RowsAreMade'
  BY <1>1, <1>2 DEF RowsAreMade, DirectoryTyped, Ids
<1>6. \A id \in Ids : Exists(id) => address'[id] = address[id] /\ Exists(id)'
  BY <1>1, <1>2 DEF RowsAreMade, Exists, Ids
<1>7. OneMailboxPerAddress'
  <2>. SUFFICES ASSUME NEW i \in Ids, NEW j \in Ids, address'[i] # Nothing, address'[i] = address'[j]
                PROVE  i = j
    BY DEF OneMailboxPerAddress
  <2>1. CASE i \in (boxes + 1)..boxes' /\ j \in (boxes + 1)..boxes'
    BY <2>1, Made
  <2>2. CASE i \in (boxes + 1)..boxes' /\ j \notin (boxes + 1)..boxes'
    BY <1>2, <2>2 DEF Taken
  <2>3. CASE i \notin (boxes + 1)..boxes' /\ j \in (boxes + 1)..boxes'
    BY <1>2, <2>3 DEF Taken
  <2>4. CASE i \notin (boxes + 1)..boxes' /\ j \notin (boxes + 1)..boxes'
    BY <1>2, <2>4 DEF OneMailboxPerAddress
  <2>. QED  BY <2>1, <2>2, <2>3, <2>4
<1>8. NoOrphans'
  <2>1. ASSUME NEW id \in (boxes + 1)..boxes'
        PROVE  Exists(id)'
    <3>1. id \in Ids
      BY <1>1
    <3>2. address'[id] \in S
      BY <1>2, <3>1
    <3>3. address'[id] # Nothing
      BY <3>2, DirectoryAssumption
    <3>. QED  BY <3>1, <3>3 DEF Exists
  <2>2. ASSUME NEW id \in Ids, id \in letters' \cup leased' \/ \E a \in Addresses : alias'[a] = id
        PROVE  id \in (boxes + 1)..boxes' \/ Exists(id)
    BY <2>2 DEF NoOrphans
  <2>. QED  BY <1>6, <2>1, <2>2 DEF NoOrphans
<1>9. ASSUME NEW t \in Clients
      PROVE  SessionOK(t)'
  <2>1. Holdable(t, request'[t], owner) /\ request'[t].made = {}
    BY <1>3, EmptyHoldable, OthersHaveMadeNothing DEF SessionOK
  <2>. QED  BY <2>1 DEF SessionOK, Holdable
<1>. QED  BY <1>4, <1>5, <1>7, <1>8, <1>9

\* Mail for a mailbox that is there.
LEMMA StoreKeeps ==
  ASSUME DirectoryInv, NEW s \in Clients, NEW used \in BOOLEAN, StoreLetter(s, used)
  PROVE  DirectoryInv'
<1>1. CASE ~Exists(request[s].id)
  BY <1>1, OverKeeps DEF StoreLetter, Refuse, Owns, batchVars, routeVars
<1>2. CASE Exists(request[s].id)
  <2>1. /\ letters' = letters \cup {request[s].id} /\ leased' \subseteq leased \cup {request[s].id}
        /\ Over(s) /\ UNCHANGED <<boxVars, alias, line, owner>> /\ request[s].id \in Ids
    BY <1>2 DEF StoreLetter, batchVars, Exists
  <2>2. NoOrphans'
    BY <1>2, <2>1 DEF DirectoryInv, NoOrphans, Exists, boxVars
  <2>. QED  BY <2>1, <2>2, RouteKeeps DEF DirectoryInv, DirectoryTyped
<1>. QED  BY <1>1, <1>2

\* An alias of a mailbox that is there.
LEMMA AliasKeeps ==
  ASSUME DirectoryInv, NEW s \in Clients, AliasInsert(s)
  PROVE  DirectoryInv'
<1>. DEFINE a == request[s].addr
            id == request[s].id
<1>1. CASE alias[a] # Nothing \/ ~Exists(id)
  BY <1>1, OverKeeps DEF AliasInsert, Refuse, Owns, batchVars, routeVars
<1>2. CASE ~(alias[a] # Nothing \/ ~Exists(id))
  <2>1. /\ alias' = [alias EXCEPT ![a] = id] /\ Exists(id) /\ id \in Ids
        /\ Over(s) /\ UNCHANGED <<boxVars, letters, leased, line, owner>>
    BY <1>2 DEF AliasInsert, batchVars, Exists
  <2>2. alias' \in [Addresses -> Ids \cup {Nothing}]
    BY <2>1 DEF DirectoryInv, DirectoryTyped
  <2>3. \A x \in Addresses : alias'[x] = alias[x] \/ alias'[x] = id
    BY <2>1 DEF DirectoryInv, DirectoryTyped
  <2>4. NoOrphans'
    BY <2>1, <2>3 DEF DirectoryInv, NoOrphans, Exists, boxVars
  <2>. QED  BY <2>1, <2>2, <2>4, RouteKeeps DEF DirectoryInv, DirectoryTyped
<1>. QED  BY <1>1, <1>2

LEMMA DeleteAliasKeeps ==
  ASSUME DirectoryInv, NEW a \in Addresses, DeleteAlias(a)
  PROVE  DirectoryInv'
<1>1. /\ alias' = [alias EXCEPT ![a] = Nothing]
      /\ UNCHANGED <<boxVars, letters, leased, line, owner, request>>
  BY DEF DeleteAlias, batchVars
<1>2. alias' \in [Addresses -> Ids \cup {Nothing}]
  BY <1>1 DEF DirectoryInv, DirectoryTyped
<1>3. \A x \in Addresses : alias'[x] = alias[x] \/ alias'[x] = Nothing
  BY <1>1 DEF DirectoryInv, DirectoryTyped
<1>4. NoOrphans'
  BY <1>1, <1>3, DirectoryAssumption DEF DirectoryInv, NoOrphans, Exists, boxVars
<1>. QED  BY <1>1, <1>2, <1>4, RouteKeeps DEF DirectoryInv, DirectoryTyped

\* The hard delete of a mailbox nothing refers to but messages.
LEMMA DeleteKeeps ==
  ASSUME DirectoryInv, NEW id \in Ids, HardDelete(id)
  PROVE  DirectoryInv'
<1>. USE DEF DirectoryInv
<1>1. /\ address' = [address EXCEPT ![id] = Nothing] /\ letters' = letters \ {id}
      /\ UNCHANGED <<maker, boxes, alias, leased, line, request, owner>>
      /\ owner = Nothing /\ id \notin leased /\ \A a \in Addresses : alias[a] # id
  BY DEF HardDelete, Deletable, batchVars
<1>2. \A i \in Ids : address'[i] = IF i = id THEN Nothing ELSE address[i]
  BY <1>1 DEF DirectoryTyped
<1>3. DirectoryTyped'
  BY <1>1 DEF DirectoryTyped
<1>4. RowsAreMade' /\ ValidLines' /\ OneMailboxPerAddress'
  BY <1>1, <1>2 DEF RowsAreMade, ValidLines, OneMailboxPerAddress, Exists
<1>5. NoOrphans'
  BY <1>1, <1>2 DEF NoOrphans, Exists
<1>6. ASSUME NEW s \in Clients
      PROVE  SessionOK(s)'
  <2>1. Holdable(s, request[s], owner) /\ request[s].made = {}
    BY <1>1, DirectoryAssumption DEF SessionOK, Holdable
  <2>. QED  BY <1>1, <2>1 DEF SessionOK, Holdable
<1>. QED  BY <1>3, <1>4, <1>5, <1>6

\* POST /mailboxes
LEMMA CreateKeeps ==
  ASSUME DirectoryInv, NEW s \in Clients, CreateInsert(s)
  PROVE  DirectoryInv'
<1>. DEFINE a == request[s].addr
<1>1. CASE Clash({a})
  BY <1>1, OverKeeps DEF CreateInsert, Refuse, Owns, batchVars, routeVars
<1>2. CASE ~Clash({a})
  <2>1. /\ MakeBoxes({a}, "api") /\ Over(s) /\ ~Taken(a)
        /\ UNCHANGED <<alias, letters, leased, line>> /\ owner = Nothing /\ owner' = Nothing
    BY <1>2 DEF CreateInsert, Clash, batchVars, routeVars
  <2>2. a \in Addresses
    BY DEF CreateInsert, DirectoryInv, SessionOK, Holdable
  <2>3. IsFiniteSet({a}) /\ {a} \in SUBSET Addresses /\ \A x \in {a} : ~Taken(x)
    BY <2>1, <2>2, FS_Singleton
  <2>4. ValidLines' /\ line' \in [Batches -> Seq(Statuses)] /\ alias' \in [Addresses -> Ids \cup {Nothing}]
    BY <2>1 DEF DirectoryInv, DirectoryTyped, ValidLines
  <2>. HIDE DEF a
  <2>. QED  BY <2>1, <2>3, <2>4, MakeKeeps DEF Owns
<1>. QED  BY <1>1, <1>2

\* Inbound mail for an address nobody has.
LEMMA InboundKeeps ==
  ASSUME DirectoryInv, NEW s \in Clients, MakeAndStore(s)
  PROVE  DirectoryInv'
<1>. DEFINE a == request[s].addr
            m == MadeFor(request[s])
            refused == Clash({m}) \/ (m # a /\ alias[a] # Nothing)
<1>1. CASE refused
  BY <1>1, OverKeeps DEF MakeAndStore, Refuse, Owns, batchVars, routeVars
<1>2. CASE ~refused
  <2>1. /\ MakeBoxes({m}, "inbound") /\ Over(s) /\ ~Taken(m)
        /\ letters' = letters \cup {boxes + 1}
        /\ alias' = IF m # a THEN [alias EXCEPT ![a] = boxes + 1] ELSE alias
        /\ UNCHANGED <<leased, line>> /\ owner = Nothing /\ owner' = Nothing
    BY <1>2 DEF MakeAndStore, Clash, batchVars
  <2>2. a \in Addresses /\ m \in Addresses
    BY DirectoryAssumption DEF MakeAndStore, DirectoryInv, SessionOK, Holdable, MadeFor
  <2>. HIDE DEF m, a
  <2>3. /\ IsFiniteSet({m}) /\ Cardinality({m}) = 1 /\ {m} \in SUBSET Addresses
        /\ \A x \in {m} : ~Taken(x)
    BY <2>1, <2>2, FS_Singleton
  <2>4. ValidLines' /\ line' \in [Batches -> Seq(Statuses)]
    BY <2>1 DEF DirectoryInv, DirectoryTyped, ValidLines
  <2>5. boxes' = boxes + 1 /\ boxes \in Nat /\ boxes' <= MaxBoxes /\ MaxBoxes \in Nat
    BY <2>1, <2>3, Made, DirectoryAssumption DEF DirectoryInv, DirectoryTyped
  <2>6. boxes + 1 \in Ids /\ boxes + 1 \in (boxes + 1)..boxes'
    BY <2>5 DEF Ids
  <2>7. alias' \in [Addresses -> Ids \cup {Nothing}]
    BY <2>1, <2>6 DEF DirectoryInv, DirectoryTyped
  <2>8. \A x \in Addresses : alias'[x] = alias[x] \/ alias'[x] \in (boxes + 1)..boxes'
    BY <2>1, <2>6 DEF DirectoryInv, DirectoryTyped
  <2>9. letters' \subseteq letters \cup (boxes + 1)..boxes'
    BY <2>1, <2>6
  <2>. QED  BY <2>1, <2>3, <2>4, <2>7, <2>8, <2>9, MakeKeeps DEF Owns
<1>. QED  BY <1>1, <1>2

-----------------------------------------------------------------------------
(* Imports *)

\* The preview calls only those rows VALID that are.
LEMMA PreviewKeeps ==
  ASSUME DirectoryInv, NEW b \in Batches, Preview(b)
  PROVE  DirectoryInv'
<1>. USE DEF DirectoryInv
<1>. DEFINE statuses == [i \in DOMAIN Lines[b] |-> PreviewStatus(Lines[b], i)]
<1>1. line' = [line EXCEPT ![b] = statuses] /\ UNCHANGED <<boxVars, routeVars, request, owner>>
  BY DEF Preview
<1>2. ASSUME NEW i \in Nat \ {0}, i <= Len(statuses), statuses[i] = "VALID"
      PROVE  i \in ValidRows(b)
  <2>1. PICK R : Lines[b] \in Seq(R)
    BY DirectoryAssumption
  <2>2. DOMAIN Lines[b] = 1..Len(Lines[b]) /\ Len(Lines[b]) \in Nat
    BY <2>1
  <2>3. Len(statuses) = Len(Lines[b])
    BY <2>2
  <2>4. i \in DOMAIN Lines[b] /\ PreviewStatus(Lines[b], i) = "VALID"
    BY <1>2, <2>2, <2>3
  <2>. QED  BY <2>4 DEF PreviewStatus, ValidRows
<1>8. statuses \in Seq(Statuses)
  <2>1. PICK R : Lines[b] \in Seq(R)
    BY DirectoryAssumption
  <2>2. DOMAIN Lines[b] = 1..Len(Lines[b]) /\ Len(Lines[b]) \in Nat
    BY <2>1
  <2>3. \A i \in DOMAIN Lines[b] : PreviewStatus(Lines[b], i) \in Statuses
    BY DEF PreviewStatus, LineStatus, Statuses
  <2>. QED  BY <2>2, <2>3
<1>. HIDE DEF statuses
<1>3. \A c \in Batches : line'[c] = IF c = b THEN statuses ELSE line[c]
  BY <1>1 DEF DirectoryTyped
<1>4. ValidLines'
  BY <1>2, <1>3 DEF ValidLines
<1>5. DirectoryTyped' /\ RowsAreMade'
  BY <1>1, <1>8 DEF DirectoryTyped, RowsAreMade, boxVars, routeVars
<1>6. OneMailboxPerAddress' /\ NoOrphans'
  BY <1>1 DEF OneMailboxPerAddress, NoOrphans, Exists, boxVars, routeVars
<1>7. ASSUME NEW s \in Clients
      PROVE  SessionOK(s)'
  BY <1>1 DEF SessionOK, Holdable, Taken, boxVars
<1>. QED  BY <1>4, <1>5, <1>6, <1>7

\* An import reads its batch and then the rows.
LEMMA ImportReadKeeps ==
  ASSUME DirectoryInv, NEW s \in Clients, NEW b \in Batches, ImportRead(s, b)
  PROVE  DirectoryInv'
<1>. DEFINE r == Import("rows", b, 0, {}, {}, <<valid[b], duplicate[b]>>, <<>>)
<1>1. Hold(s, r) /\ UNCHANGED <<boxVars, alias, letters, leased, line, owner>>
  BY DEF ImportRead, routeVars, batchVars
<1>2. Holdable(s, r, owner')
  BY DEF Holdable, Import
<1>. HIDE DEF r
<1>. QED  BY <1>1, <1>2, HoldKeeps

LEMMA ImportRowsKeeps ==
  ASSUME DirectoryInv, NEW s \in Clients, ImportRows(s)
  PROVE  DirectoryInv'
<1>. DEFINE b == request[s].batch
            r == Import("import", b, 1, {}, {}, request[s].counts, line[b])
<1>1. Hold(s, r) /\ UNCHANGED <<boxVars, alias, letters, leased, line, owner>>
  BY DEF ImportRows, routeVars, batchVars
<1>2. b \in Batches
  BY DEF ImportRows, DirectoryInv, SessionOK, Holdable
<1>3. Holdable(s, r, owner')
  <2>. HIDE DEF b
  <2>. QED  BY <1>2 DEF Holdable, Import, DirectoryInv, ValidLines
<1>. HIDE DEF r
<1>. QED  BY <1>1, <1>3, HoldKeeps

\* What the session of an import holds when it goes on.
LEMMA OnwardFields ==
  ASSUME NEW r, NEW op, NEW i, NEW made, NEW marked
  PROVE  LET q == Onward(r, op, i, made, marked) IN
         /\ q.op = op /\ q.batch = r.batch /\ q.at = i /\ q.made = made /\ q.marked = marked
         /\ q.counts = r.counts /\ q.seen = r.seen
BY DEF Onward, Import

\* It looks a row up that is valid.
LEMMA ImportLookKeeps ==
  ASSUME DirectoryInv, NEW s \in Clients, NEW b \in Batches, NEW i \in DOMAIN Lines[b], ImportLook(s, i)
  PROVE  DirectoryInv'
<1>. DEFINE p == request[s]
            dirty == p.made # {} \/ p.marked # {}
<1>1. PICK op, at, marked :
        /\ op \in {"import", "insert"}
        /\ Hold(s, Onward(p, op, at, p.made, marked))
        /\ op = "insert" => at = i
  BY DEF ImportLook
<1>2. /\ UNCHANGED <<boxVars, alias, letters, leased, line>>
      /\ p.op = "import" /\ i \in p.at..Len(p.seen) /\ p.seen[i] = "VALID"
      /\ dirty => Owns(s)
      /\ owner' = IF dirty THEN s ELSE owner
  BY DEF ImportLook, routeVars, batchVars
<1>3. Holdable(s, p, owner)
  BY DEF DirectoryInv, SessionOK
<1>4. i \in Nat \ {0} /\ i <= Len(p.seen)
  <2>1. PICK R : Lines[b] \in Seq(R)
    BY DirectoryAssumption
  <2>2. i \in Nat \ {0}
    BY <2>1
  <2>. QED  BY <1>2, <2>2
<1>5. i \in ValidRows(p.batch)
  BY <1>2, <1>3, <1>4 DEF Holdable
<1>6. p.made # {} => owner' = s
  BY <1>2
<1>. DEFINE r == Onward(p, op, at, p.made, marked)
<1>7. r.op = op /\ r.batch = p.batch /\ r.at = at /\ r.made = p.made /\ r.seen = p.seen
  BY OnwardFields
<1>8. Holdable(s, r, owner')
  <2>. HIDE DEF r, p
  <2>. QED  BY <1>1, <1>2, <1>3, <1>5, <1>6, <1>7 DEF Holdable
<1>. HIDE DEF p
<1>9. Hold(s, r)
  BY <1>1
<1>. HIDE DEF r
<1>. QED  BY <1>2, <1>8, <1>9, HoldKeeps

\* It inserts a mailbox for the row.
LEMMA ImportInsertKeeps ==
  ASSUME DirectoryInv, NEW s \in Clients, ImportInsert(s)
  PROVE  DirectoryInv'
<1>. DEFINE p == request[s]
            refused == Clash({Lines[p.batch][p.at].email})
<1>1. CASE refused
  BY <1>1, OverKeeps DEF ImportInsert, Refuse, batchVars, routeVars
<1>2. CASE ~refused
  <2>. DEFINE r == Onward(p, "import", p.at + 1, p.made \cup {p.at}, p.marked)
  <2>1. /\ Hold(s, r) /\ UNCHANGED <<boxVars, alias, letters, leased, line>>
        /\ p.op = "insert" /\ Owns(s) /\ owner' = s
    BY <1>2 DEF ImportInsert, routeVars, batchVars
  <2>2. ~Taken(Lines[p.batch][p.at].email)
    BY <1>2 DEF Clash
  <2>3. Holdable(s, p, owner)
    BY DEF DirectoryInv, SessionOK
  <2>4. r.op = "import" /\ r.batch = p.batch /\ r.made = p.made \cup {p.at} /\ r.seen = p.seen
    BY OnwardFields
  <2>5. Holdable(s, r, owner')
    <3>. HIDE DEF r, p
    <3>. QED  BY <2>1, <2>2, <2>3, <2>4 DEF Holdable
  <2>. HIDE DEF r
  <2>. QED  BY <2>1, <2>5, HoldKeeps
<1>. QED  BY <1>1, <1>2

\* It commits, the mailboxes and the rows that turned out to be duplicates.
LEMMA ImportCommitKeeps ==
  ASSUME DirectoryInv, NEW s \in Clients, ImportCommit(s)
  PROVE  DirectoryInv'
<1>. DEFINE p == request[s]
            b == p.batch
            S == {Lines[b][i].email : i \in p.made}
<1>1. Holdable(s, p, owner) /\ b \in Batches
  BY DEF DirectoryInv, SessionOK, Holdable, ImportCommit
<1>2. /\ MakeBoxes(S, b) /\ Over(s) /\ Owns(s) /\ owner' = Nothing
      /\ UNCHANGED <<alias, letters, leased>>
      /\ line' = [line EXCEPT ![b] =
                    [i \in DOMAIN line[b] |-> IF i \in p.marked THEN "DUPLICATE" ELSE line[b][i]]]
  BY DEF ImportCommit, routeVars
<1>3. S \in SUBSET Addresses /\ IsFiniteSet(S)
  BY <1>1, EmailsOfRows DEF Holdable
<1>4. \A a \in S : ~Taken(a)
  BY <1>1 DEF Holdable
<1>5. ValidLines' /\ line' \in [Batches -> Seq(Statuses)]
  <2>. HIDE DEF p, b
  <2>. DEFINE new == [i \in DOMAIN line[b] |-> IF i \in p.marked THEN "DUPLICATE" ELSE line[b][i]]
  <2>1. line' = [c \in Batches |-> IF c = b THEN new ELSE line[c]]
    BY <1>1, <1>2 DEF DirectoryInv, DirectoryTyped
  <2>2. line[b] \in Seq(Statuses)
    BY <1>1 DEF DirectoryInv, DirectoryTyped
  <2>3. new \in Seq(Statuses) /\ Len(new) = Len(line[b])
    <3>1. \A i \in DOMAIN line[b] : new[i] \in Statuses
      BY <2>2 DEF Statuses
    <3>2. DOMAIN line[b] = 1..Len(line[b]) /\ Len(line[b]) \in Nat
      BY <2>2
    <3>3. new \in [1..Len(line[b]) -> Statuses]
      BY <3>1, <3>2
    <3>. HIDE DEF new
    <3>. QED  BY <3>2, <3>3
  <2>4. ASSUME NEW i \in Nat \ {0}, i <= Len(new), new[i] = "VALID"
        PROVE  i \in ValidRows(b)
    <3>1. i \in DOMAIN line[b] /\ i <= Len(line[b])
      BY <2>2, <2>3, <2>4
    <3>2. line[b][i] = "VALID"
      BY <2>4, <3>1
    <3>. QED  BY <1>1, <3>1, <3>2 DEF DirectoryInv, ValidLines
  <2>. HIDE DEF new
  <2>5. line' \in [Batches -> Seq(Statuses)]
    BY <2>1, <2>3 DEF DirectoryInv, DirectoryTyped
  <2>6. ValidLines'
    BY <1>1, <2>1, <2>4 DEF DirectoryInv, ValidLines
  <2>. QED  BY <2>5, <2>6
<1>. HIDE DEF S
<1>6. alias' \in [Addresses -> Ids \cup {Nothing}]
  BY <1>2 DEF DirectoryInv, DirectoryTyped
<1>. HIDE DEF b
<1>. QED  BY <1>1, <1>2, <1>3, <1>4, <1>5, <1>6, MakeKeeps

-----------------------------------------------------------------------------
(* All steps *)

\* A client finds nothing, or a mailbox, for its address, and will write later.
LEMMA LookKeeps ==
  ASSUME DirectoryInv, NEW s \in Clients, NEW a \in Addresses, NEW op, NEW id,
         Hold(s, Request(op, a, id)), op \in {"create", "make", "again", "plain", "alias", "store"},
         UNCHANGED <<boxVars, routeVars, batchVars, owner>>
  PROVE  DirectoryInv'
<1>. DEFINE r == Request(op, a, id)
<1>1. Holdable(s, r, owner')
  BY DEF Holdable, Request
<1>. HIDE DEF r
<1>2. Hold(s, r) /\ UNCHANGED <<boxVars, alias, letters, leased, line, owner>>
  BY DEF r, routeVars, batchVars
<1>. QED  BY <1>1, <1>2, HoldKeeps

\* The domain of a plus address is looked up once more.
LEMMA AgainKeeps ==
  ASSUME DirectoryInv, NEW s \in Clients, RouteAgain(s)
  PROVE  DirectoryInv'
<1>1. request[s].addr \in Addresses /\ UNCHANGED <<boxVars, routeVars, batchVars, owner>>
  BY DEF RouteAgain, DirectoryInv, SessionOK, Holdable
<1>2. CASE Over(s)
  BY <1>1, <1>2, OverKeeps DEF routeVars, batchVars
<1>3. CASE Hold(s, Request("plain", request[s].addr, 0))
  BY <1>1, <1>3, LookKeeps
<1>. QED  BY <1>2, <1>3 DEF RouteAgain

LEMMA DieKeeps ==
  ASSUME DirectoryInv, NEW s \in Clients, Die(s)
  PROVE  DirectoryInv'
BY OverKeeps DEF Die, Owns, routeVars, batchVars

LEMMA DirectoryKept ==
  ASSUME DirectoryInv, [DirectoryNext]_directoryVars
  PROVE  DirectoryInv'
<1>1. CASE UNCHANGED directoryVars
  <2>1. NoOrphans'
    BY <1>1 DEF directoryVars, boxVars, routeVars, DirectoryInv, NoOrphans, Exists
  <2>2. UNCHANGED <<boxVars, alias, letters, leased, line, request, owner>>
    BY <1>1 DEF directoryVars, routeVars, batchVars
  <2>. QED  BY <2>1, <2>2, RouteKeeps DEF DirectoryInv, DirectoryTyped
<1>2. ASSUME NEW s \in Clients, NEW a \in Addresses,
             CreateLook(s, a) \/ RouteNowhere(s, a) \/ \E id \in Ids : Route(s, a, id) \/ AliasLook(s, a, id)
      PROVE  DirectoryInv'
  <2>1. PICK op \in {"create", "make", "again", "plain", "alias", "store"}, id \in Ids \cup {0} : Hold(s, Request(op, a, id))
    BY <1>2 DEF CreateLook, RouteNowhere, Route, AliasLook
  <2>2. UNCHANGED <<boxVars, routeVars, batchVars, owner>>
    BY <1>2 DEF CreateLook, RouteNowhere, Route, AliasLook
  <2>. QED  BY <2>1, <2>2, LookKeeps
<1>3. ASSUME NEW s \in Clients, NEW b \in Batches, ImportRead(s, b)
      PROVE  DirectoryInv'
  BY <1>3, ImportReadKeeps
<1>4. ASSUME NEW s \in Clients, RequestStep(s)
      PROVE  DirectoryInv'
  BY <1>4, CreateKeeps, AgainKeeps, InboundKeeps, AliasKeeps, StoreKeeps, ImportRowsKeeps, ImportInsertKeeps,
     ImportCommitKeeps, ImportLookKeeps DEF RequestStep
<1>5. ASSUME NEW s \in Clients, Die(s)
      PROVE  DirectoryInv'
  BY <1>5, DieKeeps
<1>6. ASSUME NEW on \in BOOLEAN, ChangeDomain(on)
      PROVE  DirectoryInv'
  <2>1. UNCHANGED <<boxVars, alias, letters, leased, line, request, owner>>
    BY <1>6 DEF ChangeDomain, batchVars
  <2>2. NoOrphans'
    BY <2>1 DEF boxVars, DirectoryInv, NoOrphans, Exists
  <2>. QED  BY <2>1, <2>2, RouteKeeps DEF DirectoryInv, DirectoryTyped
<1>7. ASSUME NEW a \in Addresses, DeleteAlias(a)
      PROVE  DirectoryInv'
  BY <1>7, DeleteAliasKeeps
<1>8. ASSUME NEW id \in Ids, HardDelete(id)
      PROVE  DirectoryInv'
  BY <1>8, DeleteKeeps
<1>9. ASSUME NEW b \in Batches, Preview(b)
      PROVE  DirectoryInv'
  BY <1>9, PreviewKeeps
<1>. QED  BY <1>1, <1>2, <1>3, <1>4, <1>5, <1>6, <1>7, <1>8, <1>9 DEF DirectoryNext

-----------------------------------------------------------------------------
(* The counters of imports *)

\* The rows with a status.
RowsWith(statuses, st) == {i \in DOMAIN statuses : statuses[i] = st}

\* What a session that imports may hold: it has made or marked every valid row it has
\* passed and no other, for each address one, and as long as nobody else commits the
\* batch its copies are the batch.
ImportHeld(r) ==
  r.batch # Nothing =>
    /\ r.batch \in Batches /\ r.op \in {"rows", "import", "insert"} /\ batch[r.batch] # "NONE"
    /\ r.op # "rows" =>
         /\ r.at \in Nat \ {0} /\ r.seen \in Seq(Statuses) /\ r.made \cap r.marked = {}
         /\ r.made \cup r.marked = {i \in RowsWith(r.seen, "VALID") : i < r.at}
         /\ \A i, j \in r.made : Lines[r.batch][i].email = Lines[r.batch][j].email => i = j
    /\ r.op = "insert" =>
         /\ r.at \in RowsWith(r.seen, "VALID")
         /\ \A i \in r.made : Lines[r.batch][i].email # Lines[r.batch][r.at].email
    /\ r.batch \notin overlap =>
         /\ batch[r.batch] = "PREVIEWED" /\ r.counts = <<valid[r.batch], duplicate[r.batch]>>
         /\ r.op # "rows" => r.seen = line[r.batch]

\* A batch that is not committed has made nothing; one that no two sessions commit at
\* once has the counters of its rows, and has made as many mailboxes as it says.
BatchHeld(b) ==
  /\ batch[b] \in {"NONE", "PREVIEWED", "COMMITTED"}
  /\ batch[b] # "COMMITTED" => \A id \in Ids : maker[id] # b
  /\ b \notin overlap =>
       /\ \A s, t \in Clients : request[s].batch = b /\ request[t].batch = b => s = t
       /\ batch[b] # "NONE" => valid[b] = CountOf(line[b], "VALID") /\ duplicate[b] = CountOf(line[b], "DUPLICATE")
       /\ batch[b] = "COMMITTED" => Cardinality({id \in Ids : maker[id] = b}) = valid[b]

CountInv ==
  /\ batch = [b \in Batches |-> batch[b]]
  /\ valid = [b \in Batches |-> valid[b]] /\ duplicate = [b \in Batches |-> duplicate[b]]
  /\ \A id \in Ids : id > boxes => maker[id] = Nothing
  /\ \A s \in Clients : ImportHeld(request[s])
  /\ \A b \in Batches : BatchHeld(b)

LEMMA CountStart == DirectoryInit => CountInv
<1>. SUFFICES ASSUME DirectoryInit PROVE CountInv
  OBVIOUS
<1>1. \A s \in Clients : request[s] = NoRequest /\ NoRequest.batch = Nothing
  BY DEF DirectoryInit, NoRequest, Request
<1>2. \A s \in Clients : ImportHeld(request[s])
  BY <1>1 DEF ImportHeld
<1>3. ASSUME NEW b \in Batches
      PROVE  BatchHeld(b)
  <2>1. batch[b] = "NONE" /\ b # Nothing /\ \A id \in Ids : maker[id] = Nothing
    BY DirectoryAssumption DEF DirectoryInit
  <2>. QED  BY <1>1, <2>1 DEF BatchHeld
<1>. QED  BY <1>2, <1>3 DEF CountInv, DirectoryInit

\* A step that touches no batch, and leaves every session what it imports or nothing.
LEMMA NoBatchTouched ==
  ASSUME CountInv, UNCHANGED <<batchVars, overlap>>,
         \A s \in Clients : request'[s] = request[s] \/ request'[s].batch = Nothing,
         \A id \in Ids : maker'[id] = maker[id] \/ (maker[id] = Nothing /\ maker'[id] \notin Batches),
         \A id \in Ids : id > boxes' => maker'[id] = Nothing
  PROVE  CountInv'
<1>1. batch' = batch /\ line' = line /\ valid' = valid /\ duplicate' = duplicate /\ overlap' = overlap
  BY DEF batchVars
<1>2. ASSUME NEW s \in Clients
      PROVE  ImportHeld(request[s])'
  <2>1. CASE request'[s] = request[s]
    <3>1. ImportHeld(request'[s])
      BY <2>1 DEF CountInv
    <3>. QED  BY <1>1, <3>1 DEF ImportHeld
  <2>2. CASE request'[s].batch = Nothing
    BY <2>2 DEF ImportHeld
  <2>. QED  BY <2>1, <2>2
<1>3. ASSUME NEW b \in Batches
      PROVE  BatchHeld(b)'
  <2>1. \A s \in Clients : request'[s].batch = b => request[s].batch = b
    BY DirectoryAssumption
  <2>2. \A id \in Ids : maker'[id] = b <=> maker[id] = b
    BY DirectoryAssumption
  <2>3. {id \in Ids : maker'[id] = b} = {id \in Ids : maker[id] = b}
    BY <2>2
  <2>4. BatchHeld(b)
    BY DEF CountInv
  <2>. QED  BY <1>1, <2>1, <2>2, <2>3, <2>4 DEF BatchHeld
<1>. QED  BY <1>1, <1>2, <1>3 DEF CountInv

\* A session that goes on with its import.
LEMMA ImportGoesOn ==
  ASSUME DirectoryInv, CountInv, UNCHANGED <<batchVars, overlap, boxVars>>, NEW s \in Clients, NEW r, Hold(s, r),
         r.batch = request[s].batch, ImportHeld(r)
  PROVE  CountInv'
<1>1. /\ batch' = batch /\ line' = line /\ valid' = valid /\ duplicate' = duplicate /\ overlap' = overlap
      /\ boxes' = boxes /\ maker' = maker
  BY DEF batchVars, boxVars
<1>2. request' = [t \in Clients |-> IF t = s THEN r ELSE request[t]]
  BY DEF Hold, DirectoryInv, DirectoryTyped
<1>3. ASSUME NEW t \in Clients
      PROVE  ImportHeld(request[t])'
  <2>1. ImportHeld(request'[t])
    BY <1>2 DEF CountInv
  <2>. QED  BY <1>1, <2>1 DEF ImportHeld
<1>4. \A t \in Clients : request'[t].batch = request[t].batch
  BY <1>2
<1>5. ASSUME NEW b \in Batches
      PROVE  BatchHeld(b)'
  <2>1. BatchHeld(b)
    BY DEF CountInv
  <2>. QED  BY <1>1, <1>4, <2>1 DEF BatchHeld
<1>. QED  BY <1>1, <1>3, <1>5 DEF CountInv

\* An import takes a batch.
LEMMA ReadCounts ==
  ASSUME DirectoryInv, CountInv, NEW s \in Clients, NEW b \in Batches, ImportRead(s, b)
  PROVE  CountInv'
<1>. DEFINE r == Import("rows", b, 0, {}, {}, <<valid[b], duplicate[b]>>, <<>>)
<1>1. /\ batch' = batch /\ line' = line /\ valid' = valid /\ duplicate' = duplicate
      /\ boxes' = boxes /\ maker' = maker /\ batch[b] = "PREVIEWED" /\ request[s].batch = Nothing
      /\ overlap' = IF \E o \in Clients : request[o].batch = b THEN overlap \cup {b} ELSE overlap
  BY DEF ImportRead, batchVars, boxVars, NoRequest, Request
<1>2. request' = [t \in Clients |-> IF t = s THEN r ELSE request[t]]
  BY DEF ImportRead, Hold, DirectoryInv, DirectoryTyped
<1>3. r.batch = b /\ r.op = "rows" /\ r.made = {} /\ r.marked = {} /\ r.counts = <<valid[b], duplicate[b]>>
  BY DEF Import
<1>. HIDE DEF r
<1>4. overlap \subseteq overlap'
  BY <1>1
<1>5. ASSUME NEW t \in Clients
      PROVE  ImportHeld(request[t])'
  <2>1. CASE t = s
    BY <1>1, <1>2, <1>3, <2>1 DEF ImportHeld
  <2>2. CASE t # s
    <3>1. request'[t] = request[t] /\ ImportHeld(request[t])
      BY <1>2, <2>2 DEF CountInv
    <3>. QED  BY <1>1, <1>4, <3>1 DEF ImportHeld
  <2>. QED  BY <2>1, <2>2
<1>6. ASSUME NEW c \in Batches
      PROVE  BatchHeld(c)'
  <2>1. BatchHeld(c)
    BY DEF CountInv
  <2>2. ASSUME c \notin overlap', NEW t \in Clients, NEW u \in Clients, request'[t].batch = c, request'[u].batch = c
        PROVE  t = u
    <3>1. CASE c = b
      <4>1. \A o \in Clients : request[o].batch # b
        BY <1>1, <2>2, <3>1
      <4>. QED  BY <1>2, <2>2, <3>1, <4>1
    <3>2. CASE c # b
      <4>1. request[t].batch = c /\ request[u].batch = c
        BY <1>2, <1>3, <2>2, <3>2
      <4>. QED  BY <1>4, <2>1, <2>2, <4>1 DEF BatchHeld
    <3>. QED  BY <3>1, <3>2
  <2>. QED  BY <1>1, <1>4, <2>1, <2>2 DEF BatchHeld
<1>. QED  BY <1>1, <1>5, <1>6 DEF CountInv

\* The preview gives a batch that nobody commits its rows and their counts.
LEMMA PreviewCounts ==
  ASSUME DirectoryInv, CountInv, NEW b \in Batches, Preview(b)
  PROVE  CountInv'
<1>. DEFINE statuses == [i \in DOMAIN Lines[b] |-> PreviewStatus(Lines[b], i)]
<1>1. /\ UNCHANGED <<boxes, maker, request, overlap>> /\ batch[b] = "NONE"
      /\ batch' = [batch EXCEPT ![b] = "PREVIEWED"] /\ line' = [line EXCEPT ![b] = statuses]
      /\ valid' = [valid EXCEPT ![b] = CountOf(statuses, "VALID")]
      /\ duplicate' = [duplicate EXCEPT ![b] = CountOf(statuses, "DUPLICATE")]
  BY DEF Preview, boxVars
<1>. HIDE DEF statuses
<1>2. /\ batch' = [c \in Batches |-> IF c = b THEN "PREVIEWED" ELSE batch[c]]
      /\ line' = [c \in Batches |-> IF c = b THEN statuses ELSE line[c]]
      /\ valid' = [c \in Batches |-> IF c = b THEN CountOf(statuses, "VALID") ELSE valid[c]]
      /\ duplicate' = [c \in Batches |-> IF c = b THEN CountOf(statuses, "DUPLICATE") ELSE duplicate[c]]
  BY <1>1 DEF CountInv, DirectoryInv, DirectoryTyped
<1>3. ASSUME NEW s \in Clients
      PROVE  ImportHeld(request[s])'
  <2>1. ImportHeld(request[s]) /\ request[s].batch # b
    <3>1. ImportHeld(request[s]) /\ b # Nothing
      BY DirectoryAssumption DEF CountInv
    <3>. QED  BY <1>1, <3>1 DEF ImportHeld
  <2>. QED  BY <1>1, <1>2, <2>1 DEF ImportHeld
<1>4. ASSUME NEW c \in Batches
      PROVE  BatchHeld(c)'
  <2>1. BatchHeld(c)
    BY DEF CountInv
  <2>. QED  BY <1>1, <1>2, <2>1 DEF BatchHeld
<1>. QED  BY <1>1, <1>2, <1>3, <1>4 DEF CountInv

\* Mailboxes that no import makes.
LEMMA OthersMake ==
  ASSUME DirectoryInv, CountInv, NEW S \in SUBSET Addresses, IsFiniteSet(S), NEW by, MakeBoxes(S, by)
  PROVE  /\ \A id \in Ids : maker'[id] = maker[id] \/ (maker[id] = Nothing /\ maker'[id] = by)
         /\ \A id \in Ids : id > boxes' => maker'[id] = Nothing
         /\ {id \in Ids : maker[id] # maker'[id]} \subseteq (boxes + 1)..boxes'
         /\ \A id \in (boxes + 1)..boxes' : id \in Ids /\ maker'[id] = by
         /\ boxes \in Nat /\ boxes' = boxes + Cardinality(S) /\ Cardinality(S) \in Nat
<1>1. /\ boxes \in Nat /\ boxes' \in Nat /\ boxes' = boxes + Cardinality(S) /\ boxes' <= MaxBoxes
      /\ MaxBoxes \in Nat /\ Cardinality(S) \in Nat
      /\ \A id \in Ids : IF id \in (boxes + 1)..boxes' THEN maker'[id] = by ELSE maker'[id] = maker[id]
  BY Made, Numbering, DirectoryAssumption DEF DirectoryInv, DirectoryTyped
<1>2. \A id \in Ids : id \in Nat /\ (id > boxes => maker[id] = Nothing)
  BY <1>1 DEF CountInv, Ids
<1>3. \A id \in (boxes + 1)..boxes' : id \in Ids
  BY <1>1 DEF Ids
<1>. QED  BY <1>1, <1>2, <1>3

\* It makes a mailbox for POST /mailboxes or for a mail.
LEMMA MakeCounts ==
  ASSUME DirectoryInv, CountInv, NEW s \in Clients, NEW a \in Addresses, NEW by \in {"api", "inbound"},
         MakeBoxes({a}, by), Over(s), UNCHANGED <<batchVars, overlap>>
  PROVE  CountInv'
<1>1. IsFiniteSet({a}) /\ {a} \in SUBSET Addresses
  BY FS_Singleton
<1>2. by \notin Batches
  BY DirectoryAssumption
<1>3. \A t \in Clients : request'[t] = request[t] \/ request'[t].batch = Nothing
  BY DEF Over, Hold, NoRequest, Request, DirectoryInv, DirectoryTyped
<1>. QED  BY <1>1, <1>2, <1>3, OthersMake, NoBatchTouched

\* It touches no batch and makes no mailbox.
LEMMA ElsewhereCounts ==
  ASSUME DirectoryInv, CountInv, NEW s \in Clients, NEW r, Hold(s, r), r.batch = Nothing,
         UNCHANGED <<batchVars, overlap, maker, boxes>>
  PROVE  CountInv'
<1>1. \A t \in Clients : request'[t] = request[t] \/ request'[t].batch = Nothing
  BY DEF Hold, DirectoryInv, DirectoryTyped
<1>2. \A id \in Ids : id > boxes' => maker'[id] = Nothing
  BY DEF CountInv
<1>. QED  BY <1>1, <1>2, NoBatchTouched

\* What a session holds that is over, or asks about an address.
LEMMA NoBatch == NoRequest.batch = Nothing /\ \A op, a, id : Request(op, a, id).batch = Nothing
BY DEF NoRequest, Request

\* A session that is over.
LEMMA OverCounts ==
  ASSUME DirectoryInv, CountInv, NEW s \in Clients, Over(s), UNCHANGED <<batchVars, overlap, maker, boxes>>
  PROVE  CountInv'
BY NoBatch, ElsewhereCounts DEF Over

\* An import reads its rows.
LEMMA RowsCounts ==
  ASSUME DirectoryInv, CountInv, NEW s \in Clients, ImportRows(s)
  PROVE  CountInv'
<1>. DEFINE p == request[s]
            r == Import("import", p.batch, 1, {}, {}, p.counts, line[p.batch])
<1>1. Hold(s, r) /\ UNCHANGED <<batchVars, overlap, boxVars>> /\ p.op = "rows"
  BY DEF ImportRows
<1>2. /\ r.op = "import" /\ r.batch = p.batch /\ r.at = 1 /\ r.made = {} /\ r.marked = {}
      /\ r.counts = p.counts /\ r.seen = line[p.batch]
  BY DEF Import
<1>3. ImportHeld(p)
  BY DEF CountInv
<1>. HIDE DEF r, p
<1>4. p.batch \in Batches => line[p.batch] \in Seq(Statuses)
  BY DEF DirectoryInv, DirectoryTyped
<1>5. ASSUME p.batch \in Batches
      PROVE  {i \in RowsWith(r.seen, "VALID") : i < r.at} = {}
  <2>1. DOMAIN r.seen = 1..Len(r.seen)
    BY <1>2, <1>4, <1>5
  <2>. QED  BY <1>2, <2>1 DEF RowsWith
<1>6. ImportHeld(r)
  BY <1>1, <1>2, <1>3, <1>4, <1>5 DEF ImportHeld
<1>7. r.batch = request[s].batch
  BY <1>2 DEF p
<1>. QED  BY <1>1, <1>6, <1>7, ImportGoesOn

\* It passes the rows that are not valid, and finds the address of the next taken or not.
LEMMA LookCounts ==
  ASSUME DirectoryInv, CountInv, NEW s \in Clients, NEW i, ImportLook(s, i)
  PROVE  CountInv'
<1>. DEFINE p == request[s]
            taken == Rechecked(p, Lines[p.batch][i].email)
            V(n) == {j \in RowsWith(p.seen, "VALID") : j < n}
<1>1. /\ UNCHANGED <<batchVars, overlap, boxVars>> /\ p.op = "import" /\ i \in p.at..Len(p.seen)
      /\ p.seen[i] = "VALID" /\ \A j \in p.at..(i - 1) : p.seen[j] # "VALID"
      /\ Hold(s, IF taken THEN Onward(p, "import", i + 1, p.made, p.marked \cup {i})
                 ELSE Onward(p, "insert", i, p.made, p.marked))
  BY DEF ImportLook, Marked
<1>2. ImportHeld(p) /\ p.batch \in Batches /\ p.batch # Nothing
  BY <1>1, DirectoryAssumption DEF CountInv, DirectoryInv, SessionOK, Holdable
<1>3. taken \/ \A j \in p.made : Lines[p.batch][j].email # Lines[p.batch][i].email
  BY DEF Rechecked
<1>. HIDE DEF p, taken
<1>4. /\ p.at \in Nat \ {0} /\ p.seen \in Seq(Statuses) /\ p.made \cap p.marked = {}
      /\ p.made \cup p.marked = V(p.at)
      /\ \A j, k \in p.made : Lines[p.batch][j].email = Lines[p.batch][k].email => j = k
  BY <1>1, <1>2 DEF ImportHeld
<1>5. /\ DOMAIN p.seen = 1..Len(p.seen) /\ Len(p.seen) \in Nat
      /\ V(p.at) \subseteq 1..Len(p.seen)
  BY <1>4 DEF RowsWith
<1>6. i \in Nat /\ i \in RowsWith(p.seen, "VALID") /\ i \notin V(p.at)
  <2>1. i \in p.at..Len(p.seen) /\ i \in Nat /\ i >= 1
    BY <1>1, <1>4, <1>5
  <2>. QED  BY <1>1, <1>4, <1>5, <2>1 DEF RowsWith
<1>7. V(i) = V(p.at) /\ V(i + 1) = V(p.at) \cup {i}
  BY <1>1, <1>4, <1>5, <1>6 DEF RowsWith
<1>8. p.batch \notin overlap =>
        batch[p.batch] = "PREVIEWED" /\ p.counts = <<valid[p.batch], duplicate[p.batch]>> /\ p.seen = line[p.batch]
  BY <1>1, <1>2 DEF ImportHeld
<1>9. batch[p.batch] # "NONE"
  BY <1>2 DEF ImportHeld
<1>. HIDE DEF V
<1>10. CASE taken
  <2>. DEFINE r == Onward(p, "import", i + 1, p.made, p.marked \cup {i})
  <2>1. /\ r.op = "import" /\ r.batch = p.batch /\ r.at = i + 1 /\ r.made = p.made /\ r.marked = p.marked \cup {i}
        /\ r.counts = p.counts /\ r.seen = p.seen
    BY OnwardFields
  <2>2. Hold(s, r)
    BY <1>1, <1>10
  <2>. HIDE DEF r
  <2>3. r.made \cup r.marked = {j \in RowsWith(r.seen, "VALID") : j < r.at} /\ r.made \cap r.marked = {}
    <3>1. r.made \cup r.marked = V(i + 1) /\ r.made \cap r.marked = {}
      BY <1>4, <1>6, <1>7, <2>1
    <3>. QED  BY <2>1, <3>1 DEF V
  <2>4. ImportHeld(r)
    BY <1>2, <1>4, <1>6, <1>8, <1>9, <2>1, <2>3 DEF ImportHeld
  <2>. QED  BY <1>1, <2>1, <2>2, <2>4, ImportGoesOn DEF p
<1>11. CASE ~taken
  <2>. DEFINE r == Onward(p, "insert", i, p.made, p.marked)
  <2>1. /\ r.op = "insert" /\ r.batch = p.batch /\ r.at = i /\ r.made = p.made /\ r.marked = p.marked
        /\ r.counts = p.counts /\ r.seen = p.seen
    BY OnwardFields
  <2>2. Hold(s, r)
    BY <1>1, <1>11
  <2>. HIDE DEF r
  <2>3. r.made \cup r.marked = {j \in RowsWith(r.seen, "VALID") : j < r.at} /\ r.made \cap r.marked = {}
    <3>1. r.made \cup r.marked = V(i) /\ r.made \cap r.marked = {}
      BY <1>4, <1>7, <2>1
    <3>. QED  BY <2>1, <3>1 DEF V
  <2>4. /\ r.at \in RowsWith(r.seen, "VALID") /\ r.at \in Nat \ {0} /\ r.seen \in Seq(Statuses)
        /\ \A j \in r.made : Lines[r.batch][j].email # Lines[r.batch][r.at].email
        /\ \A j, k \in r.made : Lines[r.batch][j].email = Lines[r.batch][k].email => j = k
    <3>1. i \in Nat \ {0}
      BY <1>5, <1>6 DEF RowsWith
    <3>. QED  BY <1>3, <1>4, <1>6, <1>11, <2>1, <3>1
  <2>5. ImportHeld(r)
    BY <1>2, <1>8, <1>9, <2>1, <2>3, <2>4 DEF ImportHeld
  <2>. QED  BY <1>1, <2>1, <2>2, <2>5, ImportGoesOn DEF p
<1>. QED  BY <1>10, <1>11

\* It makes a mailbox for the row.
LEMMA InsertCounts ==
  ASSUME DirectoryInv, CountInv, NEW s \in Clients, ImportInsert(s)
  PROVE  CountInv'
<1>. DEFINE p == request[s]
            refused == Clash({Lines[p.batch][p.at].email})
            V(n) == {j \in RowsWith(p.seen, "VALID") : j < n}
<1>1. CASE refused
  BY <1>1, OverCounts DEF ImportInsert, Refuse, boxVars
<1>2. CASE ~refused
  <2>. DEFINE r == Onward(p, "import", p.at + 1, p.made \cup {p.at}, p.marked)
  <2>1. Hold(s, r) /\ UNCHANGED <<batchVars, overlap, boxVars>> /\ p.op = "insert"
    BY <1>2 DEF ImportInsert
  <2>2. /\ r.op = "import" /\ r.batch = p.batch /\ r.at = p.at + 1 /\ r.made = p.made \cup {p.at}
        /\ r.marked = p.marked /\ r.counts = p.counts /\ r.seen = p.seen
    BY OnwardFields
  <2>3. ImportHeld(p) /\ p.batch \in Batches /\ p.batch # Nothing
    BY <2>1, DirectoryAssumption DEF CountInv, DirectoryInv, SessionOK, Holdable
  <2>. HIDE DEF r, p
  <2>4. /\ p.at \in Nat \ {0} /\ p.seen \in Seq(Statuses) /\ p.made \cap p.marked = {}
        /\ p.made \cup p.marked = V(p.at) /\ p.at \in RowsWith(p.seen, "VALID")
        /\ \A j, k \in p.made : Lines[p.batch][j].email = Lines[p.batch][k].email => j = k
        /\ \A j \in p.made : Lines[p.batch][j].email # Lines[p.batch][p.at].email
    BY <2>1, <2>3 DEF ImportHeld
  <2>5. DOMAIN p.seen = 1..Len(p.seen) /\ Len(p.seen) \in Nat
    BY <2>4
  <2>6. V(p.at + 1) = V(p.at) \cup {p.at} /\ p.at \notin V(p.at)
    BY <2>4, <2>5 DEF RowsWith
  <2>7. p.batch \notin overlap =>
          batch[p.batch] = "PREVIEWED" /\ p.counts = <<valid[p.batch], duplicate[p.batch]>>
          /\ p.seen = line[p.batch]
    BY <2>1, <2>3 DEF ImportHeld
  <2>8. batch[p.batch] # "NONE"
    BY <2>3 DEF ImportHeld
  <2>9. r.made \cup r.marked = {j \in RowsWith(r.seen, "VALID") : j < r.at} /\ r.made \cap r.marked = {}
    <3>. HIDE DEF V
    <3>1. r.made \cup r.marked = V(p.at + 1) /\ r.made \cap r.marked = {}
      BY <2>2, <2>4, <2>6
    <3>. QED  BY <2>2, <3>1 DEF V
  <2>10. \A j, k \in r.made : Lines[p.batch][j].email = Lines[p.batch][k].email => j = k
    BY <2>2, <2>4
  <2>. HIDE DEF V
  <2>11. ImportHeld(r)
    BY <2>2, <2>3, <2>4, <2>7, <2>8, <2>9, <2>10 DEF ImportHeld
  <2>12. r.batch = request[s].batch
    BY <2>2 DEF p
  <2>. QED  BY <2>1, <2>11, <2>12, ImportGoesOn
<1>. QED  BY <1>1, <1>2

\* Different rows with different addresses are as many.
LEMMA AsManyAddresses ==
  ASSUME NEW b, NEW rows, IsFiniteSet(rows),
         \A i, j \in rows : Lines[b][i].email = Lines[b][j].email => i = j
  PROVE  Cardinality({Lines[b][i].email : i \in rows}) = Cardinality(rows)
<1>. DEFINE S == {Lines[b][i].email : i \in rows}
            f == [i \in rows |-> Lines[b][i].email]
<1>1. f \in Surjection(rows, S) /\ f \in Injection(rows, S)
  BY DEF Surjection, Injection, IsInjective
<1>. HIDE DEF S, f
<1>2. Cardinality(S) = Cardinality(rows)
  BY <1>1, FS_Surjection
<1>. QED  BY <1>2 DEF S

\* The valid rows in two parts: those the commit makes mailboxes for, and those it marks.
LEMMA CountsOfParts ==
  ASSUME NEW rows \in Seq(Statuses), NEW marked, NEW made,
         made \cap marked = {}, made \cup marked = RowsWith(rows, "VALID")
  PROVE  /\ IsFiniteSet(made) /\ IsFiniteSet(marked)
         /\ Cardinality(made) \in Nat /\ Cardinality(marked) \in Nat
         /\ CountOf(rows, "VALID") = Cardinality(made) + Cardinality(marked)
<1>1. IsFiniteSet(DOMAIN rows)
  <2>1. DOMAIN rows = 1..Len(rows) /\ Len(rows) \in Nat
    OBVIOUS
  <2>. QED  BY <2>1, FS_Interval
<1>2. made \in SUBSET DOMAIN rows /\ marked \in SUBSET DOMAIN rows
  BY DEF RowsWith
<1>3. IsFiniteSet(made) /\ IsFiniteSet(marked)
  BY <1>1, <1>2, FS_Subset
<1>4. Cardinality(made) \in Nat /\ Cardinality(marked) \in Nat
  BY <1>3, FS_CardinalityType
<1>5. Cardinality(made \cup marked) = Cardinality(made) + Cardinality(marked) - Cardinality(made \cap marked)
  BY <1>3, FS_Union
<1>6. Cardinality(made \cap marked) = 0
  BY FS_EmptySet
<1>7. CountOf(rows, "VALID") = Cardinality(made \cup marked)
  BY DEF CountOf, RowsWith
<1>. QED  BY <1>3, <1>4, <1>5, <1>6, <1>7

\* The rows after the commit, which marks some of the valid ones as duplicates: those
\* that stay valid, and the duplicates.
LEMMA CountsOfMarked ==
  ASSUME NEW rows \in Seq(Statuses), NEW marked, NEW made, NEW new,
         made \cap marked = {}, made \cup marked = RowsWith(rows, "VALID"),
         DOMAIN new = DOMAIN rows,
         \A i \in DOMAIN rows : new[i] = IF i \in marked THEN "DUPLICATE" ELSE rows[i]
  PROVE  /\ CountOf(new, "VALID") = Cardinality(made)
         /\ CountOf(new, "DUPLICATE") = CountOf(rows, "DUPLICATE") + Cardinality(marked)
         /\ CountOf(rows, "DUPLICATE") \in Nat
<1>. DEFINE D == RowsWith(rows, "DUPLICATE")
<1>1. IsFiniteSet(D)
  <2>1. DOMAIN rows = 1..Len(rows) /\ Len(rows) \in Nat
    OBVIOUS
  <2>2. IsFiniteSet(DOMAIN rows)
    BY <2>1, FS_Interval
  <2>3. D \in SUBSET DOMAIN rows
    BY DEF RowsWith
  <2>. HIDE DEF D
  <2>. QED  BY <2>2, <2>3, FS_Subset
<1>2. IsFiniteSet(marked) /\ Cardinality(marked) \in Nat
  BY CountsOfParts
<1>3. Cardinality(D) \in Nat
  <2>. HIDE DEF D
  <2>. QED  BY <1>1, FS_CardinalityType
<1>4. RowsWith(new, "VALID") = made
  <2>1. ASSUME NEW i \in DOMAIN rows
        PROVE  new[i] = "VALID" <=> i \in made
    BY DEF RowsWith
  <2>2. made \subseteq DOMAIN rows
    BY DEF RowsWith
  <2>. QED  BY <2>1, <2>2 DEF RowsWith
<1>5. RowsWith(new, "DUPLICATE") = D \cup marked
  <2>1. ASSUME NEW i \in DOMAIN rows
        PROVE  new[i] = "DUPLICATE" <=> i \in D \cup marked
    BY DEF RowsWith
  <2>2. D \cup marked \subseteq DOMAIN rows
    BY DEF RowsWith
  <2>. HIDE DEF D
  <2>. QED  BY <2>1, <2>2 DEF RowsWith
<1>6. D \cap marked = {}
  BY DEF RowsWith
<1>7. Cardinality(D \cup marked) = Cardinality(D) + Cardinality(marked)
  <2>. HIDE DEF D
  <2>1. Cardinality(D \cup marked) = Cardinality(D) + Cardinality(marked) - Cardinality(D \cap marked)
    BY <1>1, <1>2, FS_Union
  <2>2. Cardinality(D \cap marked) = 0
    BY <1>6, FS_EmptySet
  <2>. QED  BY <1>2, <1>3, <2>1, <2>2
<1>8. /\ CountOf(new, "VALID") = Cardinality(RowsWith(new, "VALID"))
      /\ CountOf(new, "DUPLICATE") = Cardinality(RowsWith(new, "DUPLICATE"))
      /\ CountOf(rows, "DUPLICATE") = Cardinality(D)
  BY DEF CountOf, RowsWith
<1>. HIDE DEF D
<1>. QED  BY <1>3, <1>4, <1>5, <1>7, <1>8

\* The commit.
LEMMA CommitCounts ==
  ASSUME DirectoryInv, CountInv, NEW s \in Clients, ImportCommit(s)
  PROVE  CountInv'
<1>. DEFINE p == request[s]
            b == p.batch
            S == {Lines[b][i].email : i \in p.made}
            n == Cardinality(p.marked)
            rows == [i \in DOMAIN line[b] |-> IF i \in p.marked THEN "DUPLICATE" ELSE line[b][i]]
            v == IF p.marked # {} THEN p.counts[1] - n ELSE valid[b]
            d == IF p.marked # {} THEN p.counts[2] + n ELSE duplicate[b]
<1>1. Holdable(s, p, owner) /\ b \in Batches /\ b # Nothing /\ p.op = "import" /\ ImportHeld(p)
  BY DirectoryAssumption DEF CountInv, DirectoryInv, SessionOK, Holdable, ImportCommit
<1>2. /\ MakeBoxes(S, b) /\ Over(s) /\ overlap' = overlap
      /\ \A i \in p.at..Len(p.seen) : p.seen[i] # "VALID"
      /\ line' = [line EXCEPT ![b] = rows] /\ batch' = [batch EXCEPT ![b] = "COMMITTED"]
      /\ valid' = [valid EXCEPT ![b] = v] /\ duplicate' = [duplicate EXCEPT ![b] = d]
  BY DEF ImportCommit, Recounted
<1>3. S \in SUBSET Addresses /\ IsFiniteSet(S)
  BY <1>1, EmailsOfRows DEF Holdable
<1>4. /\ p.at \in Nat \ {0} /\ p.seen \in Seq(Statuses) /\ p.made \cap p.marked = {}
      /\ p.made \cup p.marked = {j \in RowsWith(p.seen, "VALID") : j < p.at}
      /\ \A j, k \in p.made : Lines[b][j].email = Lines[b][k].email => j = k
  <2>. HIDE DEF p
  <2>. QED  BY <1>1 DEF ImportHeld
<1>5. p.made \cup p.marked = RowsWith(p.seen, "VALID")
  <2>. HIDE DEF p
  <2>1. DOMAIN p.seen = 1..Len(p.seen) /\ Len(p.seen) \in Nat
    BY <1>4
  <2>. QED  BY <1>2, <1>4, <2>1 DEF RowsWith
<1>6. /\ \A id \in Ids : maker'[id] = maker[id] \/ (maker[id] = Nothing /\ maker'[id] = b)
      /\ \A id \in Ids : id > boxes' => maker'[id] = Nothing
      /\ {id \in Ids : maker[id] # maker'[id]} \subseteq (boxes + 1)..boxes'
      /\ \A id \in (boxes + 1)..boxes' : id \in Ids /\ maker'[id] = b
      /\ boxes \in Nat /\ boxes' = boxes + Cardinality(S) /\ Cardinality(S) \in Nat
  <2>. HIDE DEF b, S
  <2>. QED  BY <1>2, <1>3, OthersMake
<1>7. Cardinality(S) = Cardinality(p.made)
  <2>1. IsFiniteSet(p.made)
    <3>. HIDE DEF p
    <3>. QED  BY <1>4, <1>5, CountsOfParts
  <2>. HIDE DEF p, b
  <2>2. Cardinality({Lines[b][i].email : i \in p.made}) = Cardinality(p.made)
    <3>. HIDE DEF S
    <3>1. \A i, j \in p.made : Lines[b][i].email = Lines[b][j].email => i = j
      BY <1>4
    <3>. QED  BY <2>1, <3>1, AsManyAddresses
  <2>. QED  BY <2>2 DEF S
<1>8. request' = [t \in Clients |-> IF t = s THEN NoRequest ELSE request[t]]
  BY <1>2 DEF Over, Hold, DirectoryInv, DirectoryTyped
<1>. HIDE DEF rows, S, v, d
<1>9. /\ batch' = [c \in Batches |-> IF c = b THEN "COMMITTED" ELSE batch[c]]
      /\ line' = [c \in Batches |-> IF c = b THEN rows ELSE line[c]]
      /\ valid' = [c \in Batches |-> IF c = b THEN v ELSE valid[c]]
      /\ duplicate' = [c \in Batches |-> IF c = b THEN d ELSE duplicate[c]]
  BY <1>2 DEF CountInv, DirectoryInv, DirectoryTyped
<1>10. BatchHeld(b) /\ \A t \in Clients : ImportHeld(request[t])
  BY <1>1 DEF CountInv
<1>11. b \notin overlap => \A t \in Clients : t # s => request[t].batch # b
  BY <1>10 DEF BatchHeld
<1>12. ASSUME NEW t \in Clients
       PROVE  ImportHeld(request[t])'
  <2>1. CASE t = s
    BY <1>8, <2>1, NoBatch DEF ImportHeld
  <2>2. CASE t # s
    <3>1. request'[t] = request[t] /\ ImportHeld(request[t])
      BY <1>8, <1>10, <2>2
    <3>2. CASE request[t].batch = b
      <4>1. b \in overlap'
        BY <1>2, <1>11, <2>2, <3>2
      <4>2. batch'[request'[t].batch] # "NONE"
        BY <1>1, <1>9, <3>1, <3>2
      <4>. HIDE DEF b
      <4>. QED  BY <3>1, <3>2, <4>1, <4>2 DEF ImportHeld
    <3>3. CASE request[t].batch # b
      <4>. HIDE DEF b
      <4>. QED  BY <1>2, <1>9, <3>1, <3>3 DEF ImportHeld
    <3>. QED  BY <3>2, <3>3
  <2>. QED  BY <2>1, <2>2
<1>13. ASSUME NEW c \in Batches, c # b
       PROVE  BatchHeld(c)'
  <2>1. BatchHeld(c) /\ c # Nothing
    BY DirectoryAssumption DEF CountInv
  <2>2. \A t \in Clients : request'[t].batch = c => request[t].batch = c
    BY <1>8, <2>1, NoBatch
  <2>3. \A id \in Ids : maker'[id] = c <=> maker[id] = c
    BY <1>6, <1>13, <2>1
  <2>4. {id \in Ids : maker'[id] = c} = {id \in Ids : maker[id] = c}
    BY <2>3
  <2>. HIDE DEF b
  <2>. QED  BY <1>2, <1>9, <1>13, <2>1, <2>2, <2>3, <2>4 DEF BatchHeld
<1>14. ASSUME b \notin overlap
       PROVE  /\ v = CountOf(rows, "VALID") /\ d = CountOf(rows, "DUPLICATE")
              /\ Cardinality({id \in Ids : maker'[id] = b}) = v
  <2>1. batch[b] = "PREVIEWED" /\ p.counts = <<valid[b], duplicate[b]>> /\ p.seen = line[b]
    <3>. HIDE DEF p
    <3>. QED  BY <1>1, <1>14 DEF ImportHeld, b
  <2>2. valid[b] = CountOf(line[b], "VALID") /\ duplicate[b] = CountOf(line[b], "DUPLICATE")
    BY <1>10, <1>14, <2>1 DEF BatchHeld
  <2>. HIDE DEF p, b, n
  <2>3. /\ CountOf(rows, "VALID") = Cardinality(p.made) /\ n \in Nat /\ Cardinality(p.made) \in Nat
        /\ CountOf(line[b], "VALID") = Cardinality(p.made) + n
        /\ CountOf(rows, "DUPLICATE") = CountOf(line[b], "DUPLICATE") + n
        /\ CountOf(line[b], "DUPLICATE") \in Nat
    <3>. DEFINE old == line[b]
                made == p.made
                marked == p.marked
    <3>1. /\ old \in Seq(Statuses) /\ made \cap marked = {} /\ made \cup marked = RowsWith(old, "VALID")
          /\ DOMAIN rows = DOMAIN old
          /\ \A i \in DOMAIN old : rows[i] = IF i \in marked THEN "DUPLICATE" ELSE old[i]
      BY <1>4, <1>5, <2>1 DEF rows
    <3>. HIDE DEF old, made, marked
    <3>2. /\ CountOf(rows, "VALID") = Cardinality(made)
          /\ Cardinality(made) \in Nat /\ Cardinality(marked) \in Nat
          /\ CountOf(old, "VALID") = Cardinality(made) + Cardinality(marked)
          /\ CountOf(rows, "DUPLICATE") = CountOf(old, "DUPLICATE") + Cardinality(marked)
          /\ CountOf(old, "DUPLICATE") \in Nat
      <4>1. /\ Cardinality(made) \in Nat /\ Cardinality(marked) \in Nat
            /\ CountOf(old, "VALID") = Cardinality(made) + Cardinality(marked)
        BY <3>1, CountsOfParts
      <4>. QED  BY <3>1, <4>1, CountsOfMarked
    <3>3. old = line[b] /\ made = p.made /\ n = Cardinality(marked)
      BY DEF old, made, marked, n
    <3>4. Cardinality(made) \in Nat /\ n \in Nat /\ CountOf(line[b], "DUPLICATE") \in Nat
      BY <3>2, <3>3
    <3>5. CountOf(rows, "VALID") = Cardinality(p.made)
      BY <3>2, <3>3
    <3>6. CountOf(line[b], "VALID") = Cardinality(p.made) + n
      BY <3>2, <3>3
    <3>7. CountOf(rows, "DUPLICATE") = CountOf(line[b], "DUPLICATE") + n
      BY <3>2, <3>3
    <3>. QED  BY <3>3, <3>4, <3>5, <3>6, <3>7
  <2>4. p.marked = {} => n = 0
    BY FS_EmptySet DEF n
  <2>5. v = Cardinality(p.made) /\ d = CountOf(rows, "DUPLICATE")
    <3>1. CASE p.marked # {}
      BY <2>1, <2>2, <2>3, <3>1 DEF v, d
    <3>2. CASE p.marked = {}
      BY <2>2, <2>3, <2>4, <3>2 DEF v, d
    <3>. QED  BY <3>1, <3>2
  <2>6. {id \in Ids : maker'[id] = b} = (boxes + 1)..boxes'
    <3>1. \A id \in Ids : maker[id] # b
      BY <1>10, <2>1 DEF BatchHeld
    <3>. QED  BY <1>6, <3>1
  <2>7. Cardinality((boxes + 1)..boxes') = Cardinality(S)
    <3>1. boxes + 1 \in Int /\ boxes' \in Int
      BY <1>6
    <3>2. Cardinality((boxes + 1)..boxes') = IF boxes + 1 > boxes' THEN 0 ELSE boxes' - (boxes + 1) + 1
      BY <3>1, FS_Interval
    <3>. QED  BY <1>6, <3>2
  <2>. QED  BY <1>7, <2>3, <2>5, <2>6, <2>7
<1>15. ASSUME NEW c \in Batches, c = b
       PROVE  BatchHeld(c)'
  <2>1. \A t \in Clients : c \notin overlap => request'[t].batch # c
    BY <1>1, <1>8, <1>11, <1>15, NoBatch
  <2>2. batch'[c] = "COMMITTED" /\ line'[c] = rows /\ valid'[c] = v /\ duplicate'[c] = d
    BY <1>9, <1>15
  <2>3. c \notin overlap => /\ v = CountOf(rows, "VALID") /\ d = CountOf(rows, "DUPLICATE")
                            /\ Cardinality({id \in Ids : maker'[id] = c}) = v
    BY <1>14, <1>15
  <2>. HIDE DEF b
  <2>. QED  BY <1>2, <2>1, <2>2, <2>3 DEF BatchHeld
<1>16. \A c \in Batches : BatchHeld(c)'
  BY <1>13, <1>15
<1>. QED  BY <1>6, <1>9, <1>12, <1>16 DEF CountInv

LEMMA CountKept ==
  ASSUME DirectoryInv, CountInv, [DirectoryNext]_directoryVars
  PROVE  CountInv'
<1>1. CASE UNCHANGED directoryVars
  <2>1. UNCHANGED <<batchVars, overlap, maker, boxes, request>>
    BY <1>1 DEF directoryVars, boxVars
  <2>2. \A id \in Ids : id > boxes' => maker'[id] = Nothing
    BY <2>1 DEF CountInv
  <2>. QED  BY <2>1, <2>2, NoBatchTouched
<1>2. ASSUME NEW s \in Clients, NEW a \in Addresses,
             CreateLook(s, a) \/ RouteNowhere(s, a) \/ \E id \in Ids : Route(s, a, id) \/ AliasLook(s, a, id)
      PROVE  CountInv'
  <2>1. PICK op, id : Hold(s, Request(op, a, id))
    BY <1>2 DEF CreateLook, RouteNowhere, Route, AliasLook
  <2>2. UNCHANGED <<batchVars, overlap, maker, boxes>>
    BY <1>2 DEF CreateLook, RouteNowhere, Route, AliasLook, boxVars
  <2>. QED  BY <2>1, <2>2, NoBatch, ElsewhereCounts
<1>3. ASSUME NEW s \in Clients, NEW b \in Batches, ImportRead(s, b)
      PROVE  CountInv'
  BY <1>3, ReadCounts
<1>4. ASSUME NEW s \in Clients, RequestStep(s)
      PROVE  CountInv'
  <2>1. CASE CreateInsert(s)
    <3>1. request[s].addr \in Addresses
      BY <2>1 DEF CreateInsert, DirectoryInv, SessionOK, Holdable
    <3>. QED  BY <2>1, <3>1, MakeCounts, OverCounts DEF CreateInsert, Refuse, boxVars
  <2>2. CASE MakeAndStore(s)
    <3>1. MadeFor(request[s]) \in Addresses
      BY <2>2, DirectoryAssumption DEF MakeAndStore, MadeFor, DirectoryInv, SessionOK, Holdable
    <3>. QED  BY <2>2, <3>1, MakeCounts, OverCounts DEF MakeAndStore, Refuse, boxVars
  <2>3. CASE AliasInsert(s)
    BY <2>3, OverCounts DEF AliasInsert, Refuse, boxVars
  <2>4. ASSUME NEW used \in BOOLEAN, StoreLetter(s, used)
        PROVE  CountInv'
    BY <2>4, OverCounts DEF StoreLetter, Refuse, boxVars
  <2>5. CASE RouteAgain(s)
    <3>1. Over(s) \/ Hold(s, Request("plain", request[s].addr, 0))
      BY <2>5 DEF RouteAgain
    <3>2. UNCHANGED <<batchVars, overlap, maker, boxes>>
      BY <2>5 DEF RouteAgain, boxVars
    <3>. QED  BY <3>1, <3>2, NoBatch, ElsewhereCounts, OverCounts
  <2>. QED  BY <1>4, <2>1, <2>2, <2>3, <2>4, <2>5, RowsCounts, InsertCounts, CommitCounts, LookCounts DEF RequestStep
<1>5. ASSUME NEW s \in Clients, Die(s)
      PROVE  CountInv'
  BY <1>5, OverCounts DEF Die, boxVars
<1>6. ASSUME \/ \E on \in BOOLEAN : ChangeDomain(on)
             \/ \E a \in Addresses : DeleteAlias(a)
             \/ \E id \in Ids : HardDelete(id)
      PROVE  CountInv'
  <2>1. UNCHANGED <<batchVars, overlap, maker, boxes, request>>
    BY <1>6 DEF ChangeDomain, DeleteAlias, HardDelete, boxVars
  <2>2. \A id \in Ids : id > boxes' => maker'[id] = Nothing
    BY <2>1 DEF CountInv
  <2>. QED  BY <2>1, <2>2, NoBatchTouched
<1>7. ASSUME NEW b \in Batches, Preview(b)
      PROVE  CountInv'
  BY <1>7, PreviewCounts
<1>. QED  BY <1>1, <1>2, <1>3, <1>4, <1>5, <1>6, <1>7 DEF DirectoryNext

-----------------------------------------------------------------------------
(* Types *)

\* What a session holds.
Requests ==
  [op : {"none", "create", "store", "make", "again", "plain", "alias", "rows", "import", "insert"},
   addr : Addresses \cup {Nothing}, id : Ids \cup {0}, batch : Batches \cup {Nothing}, at : Nat,
   made : SUBSET Nat, marked : SUBSET Nat, counts : Nat \X Nat, seen : Seq(Statuses)]

\* Whoever else commits the batch, a session counts at least the rows it may mark.
CountsEnough(r) ==
  r.batch # Nothing =>
    IF r.op = "rows" THEN CountOf(line[r.batch], "VALID") <= r.counts[1]
    ELSE /\ RowsWith(line[r.batch], "VALID") \subseteq RowsWith(r.seen, "VALID")
         /\ CountOf(r.seen, "VALID") <= r.counts[1]

EnoughInv ==
  /\ valid \in [Batches -> Nat] /\ duplicate \in [Batches -> Nat]
  /\ \A b \in Batches : CountOf(line[b], "VALID") <= valid[b]
  /\ request \in [Clients -> Requests]
  /\ \A s \in Clients : CountsEnough(request[s])

\* The other variables.
RestTyped ==
  /\ registered \in BOOLEAN /\ overlap \subseteq Batches /\ deaths \in Nat
  /\ owner \in Clients \cup {Nothing} /\ boxes <= MaxBoxes

LEMMA EnoughStart == DirectoryInit => EnoughInv /\ RestTyped
<1>. SUFFICES ASSUME DirectoryInit PROVE EnoughInv /\ RestTyped
  OBVIOUS
<1>1. \A s \in Clients : request[s] = NoRequest
  BY DEF DirectoryInit
<1>2. NoRequest \in Requests /\ NoRequest.batch = Nothing
  BY DEF NoRequest, Request, Requests
<1>3. \A b \in Batches : CountOf(line[b], "VALID") = 0 /\ valid[b] = 0
  <2>1. {i \in DOMAIN <<>> : <<>>[i] = "VALID"} = {}
    OBVIOUS
  <2>. QED  BY <2>1, FS_EmptySet DEF DirectoryInit, CountOf
<1>4. valid \in [Batches -> Nat] /\ duplicate \in [Batches -> Nat] /\ request \in [Clients -> Requests]
  <2>. HIDE DEF NoRequest, Requests
  <2>. QED  BY <1>2 DEF DirectoryInit
<1>5. RestTyped
  BY DirectoryAssumption DEF DirectoryInit, RestTyped
<1>. QED  BY <1>1, <1>2, <1>3, <1>4, <1>5 DEF EnoughInv, CountsEnough

\* What the sessions build to hold.
LEMMA RequestsTyped ==
  /\ NoRequest \in Requests
  /\ \A op \in {"create", "make", "again", "plain", "alias", "store"}, a \in Addresses, id \in Ids \cup {0} :
       Request(op, a, id) \in Requests
  /\ \A op \in {"rows", "import", "insert"}, b \in Batches, at \in Nat, made \in SUBSET Nat,
        marked \in SUBSET Nat, counts \in Nat \X Nat, seen \in Seq(Statuses) :
       Import(op, b, at, made, marked, counts, seen) \in Requests
<1>1. <<0, 0>> \in Nat \X Nat /\ <<>> \in Seq(Statuses)
  OBVIOUS
<1>2. NoRequest \in Requests
  BY <1>1 DEF NoRequest, Request, Requests
<1>3. ASSUME NEW op \in {"create", "make", "again", "plain", "alias", "store"}, NEW a \in Addresses, NEW id \in Ids \cup {0}
      PROVE  Request(op, a, id) \in Requests
  BY <1>1 DEF Request, Requests
<1>4. ASSUME NEW op \in {"rows", "import", "insert"}, NEW b \in Batches, NEW at \in Nat, NEW made \in SUBSET Nat,
             NEW marked \in SUBSET Nat, NEW counts \in Nat \X Nat, NEW seen \in Seq(Statuses)
      PROVE  Import(op, b, at, made, marked, counts, seen) \in Requests
  BY DEF Import, Requests
<1>. QED  BY <1>2, <1>3, <1>4

\* A session that holds something else, while no batch changes.
LEMMA HoldEnough ==
  ASSUME EnoughInv, UNCHANGED <<line, valid, duplicate>>, NEW s \in Clients, NEW r \in Requests,
         Hold(s, r), CountsEnough(r)
  PROVE  EnoughInv'
<1>1. request' = [t \in Clients |-> IF t = s THEN r ELSE request[t]]
  BY DEF Hold, EnoughInv
<1>2. request' \in [Clients -> Requests]
  <2>. HIDE DEF Requests
  <2>. QED  BY <1>1 DEF EnoughInv
<1>3. ASSUME NEW t \in Clients
      PROVE  CountsEnough(request[t])'
  <2>1. CountsEnough(request'[t])
    BY <1>1 DEF EnoughInv
  <2>. QED  BY <2>1 DEF CountsEnough
<1>. QED  BY <1>2, <1>3 DEF EnoughInv

\* It is over, or asks about an address.
LEMMA OverEnough ==
  ASSUME EnoughInv, UNCHANGED <<line, valid, duplicate>>, NEW s \in Clients,
         \/ Over(s)
         \/ \E op \in {"create", "make", "again", "plain", "alias", "store"}, a \in Addresses, id \in Ids \cup {0} :
              Hold(s, Request(op, a, id))
  PROVE  EnoughInv'
<1>1. PICK r \in Requests : Hold(s, r) /\ r.batch = Nothing
  BY RequestsTyped, NoBatch DEF Over
<1>2. CountsEnough(r)
  BY <1>1 DEF CountsEnough
<1>. QED  BY <1>1, <1>2, HoldEnough

\* An import goes on with its copies.
LEMMA OnwardEnough ==
  ASSUME EnoughInv, UNCHANGED <<line, valid, duplicate>>, NEW s \in Clients,
         request[s].op \in {"import", "insert"}, request[s].batch \in Batches,
         NEW op \in {"import", "insert"}, NEW i \in Nat, NEW made \in SUBSET Nat, NEW marked \in SUBSET Nat,
         Hold(s, Onward(request[s], op, i, made, marked))
  PROVE  EnoughInv'
<1>. DEFINE p == request[s]
            r == Onward(p, op, i, made, marked)
<1>1. p.counts \in Nat \X Nat /\ p.seen \in Seq(Statuses) /\ CountsEnough(p)
  <2>1. p \in Requests /\ CountsEnough(p)
    BY DEF EnoughInv
  <2>2. p.counts \in Nat \X Nat /\ p.seen \in Seq(Statuses)
    <3>. HIDE DEF p
    <3>. QED  BY <2>1 DEF Requests
  <2>. QED  BY <2>1, <2>2
<1>2. r.op = op /\ r.batch = p.batch /\ r.counts = p.counts /\ r.seen = p.seen
  BY OnwardFields
<1>3. r \in Requests
  <2>1. r = Import(op, p.batch, i, made, marked, p.counts, p.seen)
    BY DEF Onward
  <2>. HIDE DEF p, r
  <2>. QED  BY <1>1, <2>1, RequestsTyped DEF p
<1>4. Hold(s, r)
  OBVIOUS
<1>5. p.op # "rows" /\ p.batch \in Batches /\ r.op # "rows"
  BY <1>2
<1>. HIDE DEF p, r
<1>6. CountsEnough(r)
  BY <1>1, <1>2, <1>5, DirectoryAssumption DEF CountsEnough
<1>. QED  BY <1>3, <1>4, <1>6, HoldEnough

\* Fewer rows are not more.
LEMMA FewerRows ==
  ASSUME NEW old \in Seq(Statuses), NEW new \in Seq(Statuses), RowsWith(new, "VALID") \subseteq RowsWith(old, "VALID")
  PROVE  /\ CountOf(new, "VALID") <= CountOf(old, "VALID")
         /\ CountOf(new, "VALID") \in Nat /\ CountOf(old, "VALID") \in Nat
<1>1. DOMAIN old = 1..Len(old) /\ Len(old) \in Nat
  OBVIOUS
<1>2. IsFiniteSet(DOMAIN old)
  BY <1>1, FS_Interval
<1>3. RowsWith(old, "VALID") \in SUBSET DOMAIN old
  BY DEF RowsWith
<1>4. IsFiniteSet(RowsWith(old, "VALID"))
  BY <1>2, <1>3, FS_Subset
<1>5. IsFiniteSet(RowsWith(new, "VALID"))
      /\ Cardinality(RowsWith(new, "VALID")) <= Cardinality(RowsWith(old, "VALID"))
  BY <1>4, FS_Subset
<1>. QED  BY <1>4, <1>5, FS_CardinalityType DEF CountOf, RowsWith

\* The count of any status.
LEMMA CountTyped ==
  ASSUME NEW rows \in Seq(Statuses), NEW st
  PROVE  CountOf(rows, st) \in Nat
<1>1. DOMAIN rows = 1..Len(rows) /\ Len(rows) \in Nat
  OBVIOUS
<1>2. IsFiniteSet(DOMAIN rows)
  BY <1>1, FS_Interval
<1>3. {i \in DOMAIN rows : rows[i] = st} \in SUBSET DOMAIN rows
  OBVIOUS
<1>. QED  BY <1>2, <1>3, FS_Subset, FS_CardinalityType DEF CountOf

LEMMA PreviewEnough ==
  ASSUME DirectoryInv, DirectoryInv', CountInv, EnoughInv, NEW b \in Batches, Preview(b)
  PROVE  EnoughInv'
<1>. DEFINE statuses == [i \in DOMAIN Lines[b] |-> PreviewStatus(Lines[b], i)]
<1>1. /\ request' = request /\ batch[b] = "NONE" /\ line' = [line EXCEPT ![b] = statuses]
      /\ valid' = [valid EXCEPT ![b] = CountOf(statuses, "VALID")]
      /\ duplicate' = [duplicate EXCEPT ![b] = CountOf(statuses, "DUPLICATE")]
  BY DEF Preview
<1>. HIDE DEF statuses
<1>2. line' = [c \in Batches |-> IF c = b THEN statuses ELSE line[c]]
  BY <1>1 DEF DirectoryInv, DirectoryTyped
<1>3. statuses \in Seq(Statuses)
  <2>1. line'[b] \in Seq(Statuses)
    BY DEF DirectoryInv, DirectoryTyped
  <2>. QED  BY <1>2, <2>1
<1>4. CountOf(statuses, "VALID") \in Nat /\ CountOf(statuses, "DUPLICATE") \in Nat
  BY <1>3, CountTyped
<1>5. /\ valid' = [c \in Batches |-> IF c = b THEN CountOf(statuses, "VALID") ELSE valid[c]]
      /\ valid' \in [Batches -> Nat] /\ duplicate' \in [Batches -> Nat]
  BY <1>1, <1>4 DEF EnoughInv
<1>6. ASSUME NEW s \in Clients
      PROVE  CountsEnough(request[s])'
  <2>1. request[s].batch # b
    <3>1. ImportHeld(request[s]) /\ b # Nothing
      BY DirectoryAssumption DEF CountInv
    <3>. QED  BY <1>1, <3>1 DEF ImportHeld
  <2>2. request[s].batch = Nothing \/ request[s].batch \in Batches
    BY DEF CountInv, ImportHeld
  <2>3. CountsEnough(request[s])
    BY DEF EnoughInv
  <2>. QED  BY <1>1, <1>2, <2>1, <2>2, <2>3 DEF CountsEnough
<1>7. \A c \in Batches : CountOf(line'[c], "VALID") <= valid'[c]
  BY <1>2, <1>4, <1>5 DEF EnoughInv
<1>. QED  BY <1>1, <1>5, <1>6, <1>7 DEF EnoughInv

\* The commit counts no more rows down than it has counted.
LEMMA CommitEnough ==
  ASSUME DirectoryInv, DirectoryInv', CountInv, EnoughInv, NEW s \in Clients, ImportCommit(s)
  PROVE  EnoughInv'
<1>. DEFINE p == request[s]
<1>1. PICK b \in Batches : b = p.batch
  BY DEF DirectoryInv, SessionOK, Holdable, ImportCommit
<1>. DEFINE n == Cardinality(p.marked)
            rows == [i \in DOMAIN line[b] |-> IF i \in p.marked THEN "DUPLICATE" ELSE line[b][i]]
            v == IF p.marked # {} THEN p.counts[1] - n ELSE valid[b]
            d == IF p.marked # {} THEN p.counts[2] + n ELSE duplicate[b]
<1>2. p.op = "import" /\ ImportHeld(p) /\ p \in Requests /\ CountsEnough(p) /\ b # Nothing
  BY DirectoryAssumption DEF CountInv, EnoughInv, ImportCommit
<1>3. /\ Over(s) /\ \A i \in p.at..Len(p.seen) : p.seen[i] # "VALID"
      /\ line' = [line EXCEPT ![b] = rows]
      /\ valid' = [valid EXCEPT ![b] = v] /\ duplicate' = [duplicate EXCEPT ![b] = d]
  BY <1>1 DEF ImportCommit, Recounted
<1>4. /\ p.at \in Nat \ {0} /\ p.seen \in Seq(Statuses) /\ p.made \cap p.marked = {}
      /\ p.made \cup p.marked = {j \in RowsWith(p.seen, "VALID") : j < p.at}
  <2>. HIDE DEF p
  <2>. QED  BY <1>1, <1>2 DEF ImportHeld
<1>5. request' = [t \in Clients |-> IF t = s THEN NoRequest ELSE request[t]]
  BY <1>3 DEF Over, Hold, EnoughInv
<1>. HIDE DEF p
<1>6. p.made \cup p.marked = RowsWith(p.seen, "VALID")
  <2>1. DOMAIN p.seen = 1..Len(p.seen) /\ Len(p.seen) \in Nat
    BY <1>4
  <2>. QED  BY <1>3, <1>4, <2>1 DEF RowsWith
<1>. HIDE DEF rows, v, d
<1>7. line' = [c \in Batches |-> IF c = b THEN rows ELSE line[c]]
  BY <1>3 DEF DirectoryInv, DirectoryTyped
<1>8. rows \in Seq(Statuses) /\ line[b] \in Seq(Statuses)
  <2>1. line'[b] \in Seq(Statuses) /\ line[b] \in Seq(Statuses)
    BY DEF DirectoryInv, DirectoryTyped
  <2>. QED  BY <1>7, <2>1
<1>9. /\ RowsWith(line[b], "VALID") \subseteq RowsWith(p.seen, "VALID")
      /\ CountOf(p.seen, "VALID") <= p.counts[1]
  BY <1>1, <1>2 DEF CountsEnough
<1>10. p.counts[1] \in Nat /\ p.counts[2] \in Nat /\ valid[b] \in Nat /\ duplicate[b] \in Nat
       /\ CountOf(line[b], "VALID") <= valid[b]
  BY <1>2 DEF Requests, EnoughInv
<1>11. /\ RowsWith(rows, "VALID") \subseteq RowsWith(line[b], "VALID")
       /\ RowsWith(rows, "VALID") \cap p.marked = {}
  <2>1. DOMAIN rows = DOMAIN line[b]
    BY DEF rows
  <2>2. \A i \in DOMAIN line[b] : rows[i] = "VALID" => line[b][i] = "VALID" /\ i \notin p.marked
    BY DEF rows
  <2>. QED  BY <2>1, <2>2 DEF RowsWith
<1>12. /\ n \in Nat /\ CountOf(rows, "VALID") \in Nat /\ CountOf(line[b], "VALID") \in Nat
       /\ CountOf(rows, "VALID") <= CountOf(line[b], "VALID")
       /\ CountOf(rows, "VALID") + n <= CountOf(p.seen, "VALID") /\ CountOf(p.seen, "VALID") \in Nat
  <2>1. /\ IsFiniteSet(p.made) /\ IsFiniteSet(p.marked) /\ n \in Nat /\ Cardinality(p.made) \in Nat
        /\ CountOf(p.seen, "VALID") = Cardinality(p.made) + n
    BY <1>4, <1>6, CountsOfParts DEF n
  <2>2. RowsWith(rows, "VALID") \in SUBSET p.made
    BY <1>6, <1>9, <1>11
  <2>3. Cardinality(RowsWith(rows, "VALID")) <= Cardinality(p.made)
    BY <2>1, <2>2, FS_Subset
  <2>4. CountOf(rows, "VALID") = Cardinality(RowsWith(rows, "VALID"))
    BY DEF CountOf, RowsWith
  <2>5. CountOf(rows, "VALID") \in Nat /\ CountOf(line[b], "VALID") \in Nat /\ CountOf(p.seen, "VALID") \in Nat
    BY <1>4, <1>8, CountTyped
  <2>6. CountOf(rows, "VALID") <= CountOf(line[b], "VALID")
    BY <1>8, <1>11, FewerRows
  <2>. HIDE DEF n
  <2>. QED  BY <2>1, <2>3, <2>4, <2>5, <2>6
<1>. HIDE DEF n
<1>13. v \in Nat /\ d \in Nat /\ CountOf(rows, "VALID") <= v
  BY <1>9, <1>10, <1>12 DEF v, d
<1>14. /\ valid' = [c \in Batches |-> IF c = b THEN v ELSE valid[c]]
       /\ valid' \in [Batches -> Nat] /\ duplicate' \in [Batches -> Nat]
  BY <1>3, <1>13 DEF EnoughInv
<1>15. \A c \in Batches : CountOf(line'[c], "VALID") <= valid'[c]
  BY <1>7, <1>13, <1>14 DEF EnoughInv
<1>16. request' \in [Clients -> Requests]
  <2>. HIDE DEF Requests, NoRequest
  <2>. QED  BY <1>5, RequestsTyped DEF EnoughInv
<1>17. ASSUME NEW t \in Clients
       PROVE  CountsEnough(request[t])'
  <2>1. CASE t = s
    BY <1>5, <2>1, NoBatch DEF CountsEnough
  <2>2. CASE t # s
    <3>. DEFINE q == request[t]
    <3>1. request'[t] = q /\ CountsEnough(q) /\ q \in Requests /\ ImportHeld(q)
      BY <1>5, <2>2 DEF EnoughInv, CountInv
    <3>. HIDE DEF q
    <3>2. q.batch = Nothing \/ (q.batch \in Batches /\ q.counts[1] \in Nat)
      BY <3>1 DEF Requests
    <3>3. ASSUME q.batch = b
          PROVE  /\ RowsWith(rows, "VALID") \subseteq RowsWith(line[b], "VALID")
                 /\ q.op = "rows" => CountOf(rows, "VALID") <= q.counts[1]
      BY <1>2, <1>11, <1>12, <3>1, <3>2, <3>3 DEF CountsEnough
    <3>4. CASE q.batch = b
      <4>1. line'[q.batch] = rows
        BY <1>7, <3>4
      <4>2. q.op # "rows" => /\ RowsWith(rows, "VALID") \subseteq RowsWith(q.seen, "VALID")
                             /\ CountOf(q.seen, "VALID") <= q.counts[1]
        BY <1>2, <3>1, <3>3, <3>4 DEF CountsEnough
      <4>. QED  BY <3>1, <3>3, <3>4, <4>1, <4>2 DEF CountsEnough
    <3>5. CASE q.batch # b
      <4>1. q.batch # Nothing => line'[q.batch] = line[q.batch]
        BY <1>7, <3>2, <3>5
      <4>. QED  BY <3>1, <4>1 DEF CountsEnough
    <3>. QED  BY <3>4, <3>5
  <2>. QED  BY <2>1, <2>2
<1>. QED  BY <1>14, <1>15, <1>16, <1>17 DEF EnoughInv

LEMMA EnoughKept ==
  ASSUME DirectoryInv, DirectoryInv', CountInv, EnoughInv, [DirectoryNext]_directoryVars
  PROVE  EnoughInv'
<1>1. ASSUME UNCHANGED <<line, valid, duplicate, request>>
      PROVE  EnoughInv'
  BY <1>1 DEF EnoughInv, CountsEnough
<1>2. CASE UNCHANGED directoryVars
  BY <1>1, <1>2 DEF directoryVars, batchVars
<1>3. ASSUME \/ \E on \in BOOLEAN : ChangeDomain(on)
             \/ \E a \in Addresses : DeleteAlias(a)
             \/ \E id \in Ids : HardDelete(id)
      PROVE  EnoughInv'
  BY <1>1, <1>3 DEF batchVars, ChangeDomain, DeleteAlias, HardDelete
<1>4. ASSUME NEW s \in Clients, NEW a \in Addresses,
             CreateLook(s, a) \/ RouteNowhere(s, a) \/ \E id \in Ids : Route(s, a, id) \/ AliasLook(s, a, id)
      PROVE  EnoughInv'
  <2>1. \E op \in {"create", "make", "again", "plain", "alias", "store"}, id \in Ids \cup {0} : Hold(s, Request(op, a, id))
    BY <1>4 DEF CreateLook, RouteNowhere, Route, AliasLook
  <2>2. UNCHANGED <<line, valid, duplicate>>
    BY <1>4 DEF CreateLook, RouteNowhere, Route, AliasLook, batchVars
  <2>. QED  BY <2>1, <2>2, OverEnough
<1>5. ASSUME NEW s \in Clients, NEW b \in Batches, ImportRead(s, b)
      PROVE  EnoughInv'
  <2>. DEFINE r == Import("rows", b, 0, {}, {}, <<valid[b], duplicate[b]>>, <<>>)
  <2>1. Hold(s, r) /\ UNCHANGED <<line, valid, duplicate>>
    BY <1>5 DEF ImportRead, batchVars
  <2>2. <<valid[b], duplicate[b]>> \in Nat \X Nat /\ <<>> \in Seq(Statuses) /\ CountOf(line[b], "VALID") <= valid[b]
    BY DEF EnoughInv
  <2>3. r \in Requests
    BY <2>2, RequestsTyped
  <2>4. r.op = "rows" /\ r.batch = b /\ r.counts[1] = valid[b]
    BY DEF Import
  <2>. HIDE DEF r
  <2>5. CountsEnough(r)
    BY <2>2, <2>4 DEF CountsEnough
  <2>. QED  BY <2>1, <2>3, <2>5, HoldEnough
<1>6. ASSUME NEW s \in Clients, ImportRows(s)
      PROVE  EnoughInv'
  <2>. DEFINE p == request[s]
              r == Import("import", p.batch, 1, {}, {}, p.counts, line[p.batch])
  <2>1. Hold(s, r) /\ UNCHANGED <<line, valid, duplicate>> /\ p.op = "rows"
    BY <1>6 DEF ImportRows, batchVars
  <2>2. p \in Requests /\ CountsEnough(p)
    BY DEF EnoughInv
  <2>3. p.batch \in Batches
    BY <2>1 DEF DirectoryInv, SessionOK, Holdable
  <2>4. /\ r.op = "import" /\ r.batch = p.batch /\ r.seen = line[p.batch] /\ r.counts = p.counts
    BY DEF Import
  <2>. HIDE DEF p
  <2>5. p.counts \in Nat \X Nat /\ line[p.batch] \in Seq(Statuses)
    BY <2>2, <2>3 DEF Requests, DirectoryInv, DirectoryTyped
  <2>6. r \in Requests
    BY <2>3, <2>5, RequestsTyped
  <2>. HIDE DEF r
  <2>7. CountsEnough(r)
    BY <2>1, <2>2, <2>3, <2>4, DirectoryAssumption DEF CountsEnough
  <2>. QED  BY <2>1, <2>6, <2>7, HoldEnough
<1>7. ASSUME NEW s \in Clients, RequestStep(s)
      PROVE  EnoughInv'
  <2>1. CASE CreateInsert(s) \/ MakeAndStore(s) \/ AliasInsert(s) \/ \E used \in BOOLEAN : StoreLetter(s, used)
    <3>1. Over(s) /\ UNCHANGED <<line, valid, duplicate>>
      BY <2>1 DEF CreateInsert, MakeAndStore, AliasInsert, StoreLetter, Refuse, batchVars
    <3>. QED  BY <3>1, OverEnough
  <2>2. ASSUME NEW op \in {"import", "insert"}, request[s].op = op
        PROVE  /\ request[s].batch \in Batches /\ request[s].at \in Nat
               /\ request[s].made \in SUBSET Nat /\ request[s].marked \in SUBSET Nat
    <3>1. request[s].batch \in Batches
      BY <2>2 DEF DirectoryInv, SessionOK, Holdable
    <3>2. request[s] \in Requests
      BY DEF EnoughInv
    <3>. QED  BY <3>1, <3>2 DEF Requests
  <2>3. ASSUME NEW b \in Batches, NEW i \in DOMAIN Lines[b], ImportLook(s, i)
        PROVE  EnoughInv'
    <3>1. /\ request[s].op = "import" /\ i \in request[s].at..Len(request[s].seen)
          /\ UNCHANGED <<line, valid, duplicate>>
      BY <2>3 DEF ImportLook, batchVars
    <3>2. request[s].at \in Nat /\ request[s].marked \in SUBSET Nat /\ request[s].made \in SUBSET Nat
      BY <2>2, <3>1
    <3>3. i \in Nat /\ i + 1 \in Nat /\ request[s].marked \cup {i} \in SUBSET Nat
      BY <3>1, <3>2
    <3>4. \/ Hold(s, Onward(request[s], "import", i + 1, request[s].made, request[s].marked \cup {i}))
          \/ Hold(s, Onward(request[s], "insert", i, request[s].made, request[s].marked))
      BY <2>3 DEF ImportLook, Marked
    <3>. QED  BY <2>2, <3>1, <3>2, <3>3, <3>4, OnwardEnough
  <2>4. CASE ImportInsert(s)
    <3>1. request[s].op = "insert" /\ UNCHANGED <<line, valid, duplicate>>
      BY <2>4 DEF ImportInsert, Refuse, batchVars
    <3>2. request[s].at \in Nat /\ request[s].marked \in SUBSET Nat /\ request[s].made \in SUBSET Nat
      BY <2>2, <3>1
    <3>3. request[s].at + 1 \in Nat /\ request[s].made \cup {request[s].at} \in SUBSET Nat
      BY <3>2
    <3>4. \/ Over(s)
          \/ Hold(s, Onward(request[s], "import", request[s].at + 1, request[s].made \cup {request[s].at},
                            request[s].marked))
      BY <2>4 DEF ImportInsert, Refuse
    <3>. QED  BY <2>2, <3>1, <3>2, <3>3, <3>4, OnwardEnough, OverEnough
  <2>5. CASE RouteAgain(s)
    <3>1. request[s].addr \in Addresses /\ UNCHANGED <<line, valid, duplicate>>
      BY <2>5 DEF RouteAgain, DirectoryInv, SessionOK, Holdable, batchVars
    <3>2. Over(s) \/ Hold(s, Request("plain", request[s].addr, 0))
      BY <2>5 DEF RouteAgain
    <3>. QED  BY <3>1, <3>2, OverEnough
  <2>. QED  BY <1>6, <1>7, <2>1, <2>3, <2>4, <2>5, CommitEnough DEF RequestStep
<1>8. ASSUME NEW s \in Clients, Die(s)
      PROVE  EnoughInv'
  BY <1>8, OverEnough DEF Die, batchVars
<1>9. ASSUME NEW b \in Batches, Preview(b)
      PROVE  EnoughInv'
  BY <1>9, PreviewEnough
<1>. QED  BY <1>2, <1>3, <1>4, <1>5, <1>7, <1>8, <1>9 DEF DirectoryNext

LEMMA RestKept ==
  ASSUME DirectoryInv, RestTyped, [DirectoryNext]_directoryVars
  PROVE  RestTyped'
<1>. USE DEF RestTyped
<1>1. CASE UNCHANGED directoryVars
  BY <1>1 DEF directoryVars, boxVars, routeVars
<1>2. \A S, by : MakeBoxes(S, by) => boxes' <= MaxBoxes
  BY DEF MakeBoxes
<1>3. ASSUME NEW s \in Clients, NEW a \in Addresses,
             CreateLook(s, a) \/ RouteNowhere(s, a) \/ \E id \in Ids : Route(s, a, id) \/ AliasLook(s, a, id)
      PROVE  RestTyped'
  BY <1>3 DEF CreateLook, RouteNowhere, Route, AliasLook, boxVars, routeVars
<1>4. ASSUME NEW s \in Clients, NEW b \in Batches, ImportRead(s, b)
      PROVE  RestTyped'
  BY <1>4 DEF ImportRead, boxVars, routeVars
<1>5. ASSUME NEW s \in Clients, RequestStep(s)
      PROVE  RestTyped'
  <2>1. CASE CreateInsert(s)
    BY <1>2, <2>1 DEF CreateInsert, Refuse, boxVars, routeVars
  <2>2. CASE MakeAndStore(s)
    BY <1>2, <2>2 DEF MakeAndStore, Refuse, boxVars, routeVars
  <2>3. CASE AliasInsert(s)
    BY <2>3 DEF AliasInsert, Refuse, boxVars, routeVars
  <2>4. ASSUME NEW used \in BOOLEAN, StoreLetter(s, used)
        PROVE  RestTyped'
    BY <2>4 DEF StoreLetter, Refuse, boxVars, routeVars
  <2>5. CASE ImportRows(s) \/ ImportInsert(s)
    BY <2>5 DEF ImportRows, ImportInsert, Refuse, boxVars, routeVars
  <2>6. CASE ImportCommit(s)
    BY <1>2, <2>6 DEF ImportCommit, routeVars
  <2>7. ASSUME NEW b \in Batches, NEW i \in DOMAIN Lines[b], ImportLook(s, i)
        PROVE  RestTyped'
    BY <2>7 DEF ImportLook, boxVars, routeVars
  <2>8. CASE RouteAgain(s)
    BY <2>8 DEF RouteAgain, boxVars, routeVars
  <2>. QED  BY <1>5, <2>1, <2>2, <2>3, <2>4, <2>5, <2>6, <2>7, <2>8 DEF RequestStep
<1>6. ASSUME NEW s \in Clients, Die(s)
      PROVE  RestTyped'
  BY <1>6 DEF Die, boxVars, routeVars
<1>7. ASSUME \/ \E on \in BOOLEAN : ChangeDomain(on)
             \/ \E a \in Addresses : DeleteAlias(a)
             \/ \E id \in Ids : HardDelete(id)
             \/ \E b \in Batches : Preview(b)
      PROVE  RestTyped'
  BY <1>7 DEF ChangeDomain, DeleteAlias, HardDelete, Preview, boxVars, routeVars
<1>. QED  BY <1>1, <1>3, <1>4, <1>5, <1>6, <1>7 DEF DirectoryNext

\* The four invariants together.
ImportInv == DirectoryInv /\ CountInv /\ EnoughInv /\ RestTyped

LEMMA ImportStart == DirectoryInit => ImportInv
BY DirectoryStart, CountStart, EnoughStart DEF ImportInv

LEMMA ImportKept == ImportInv /\ [DirectoryNext]_directoryVars => ImportInv'
BY DirectoryKept, CountKept, EnoughKept, RestKept DEF ImportInv

-----------------------------------------------------------------------------
\* However the API, imports and inbound mail race, an address has one mailbox.
THEOREM OneMailbox == DirectorySpec => []OneMailboxPerAddress
<1>1. DirectoryInv /\ [DirectoryNext]_directoryVars => DirectoryInv'
  BY DirectoryKept
<1>2. DirectoryInv => OneMailboxPerAddress
  BY DEF DirectoryInv
<1>. QED  BY DirectoryStart, <1>1, <1>2, PTL DEF DirectorySpec

\* No alias, message, result or task is left without its mailbox.
THEOREM ReferencesHold == DirectorySpec => []NoOrphans
<1>1. DirectoryInv /\ [DirectoryNext]_directoryVars => DirectoryInv'
  BY DirectoryKept
<1>2. DirectoryInv => NoOrphans
  BY DEF DirectoryInv
<1>. QED  BY DirectoryStart, <1>1, <1>2, PTL DEF DirectorySpec

\* Every column has a value of its type, and so has what the sessions hold.
THEOREM DirectoryTyping == DirectorySpec => []DirectoryTypeOK
<1>1. ImportInv => DirectoryTypeOK
  <2>. SUFFICES ASSUME ImportInv PROVE DirectoryTypeOK
    OBVIOUS
  <2>1. /\ address \in [Ids -> Addresses \cup {Nothing}] /\ boxes \in 0..MaxBoxes
        /\ maker \in [Ids -> {"api", "inbound"} \cup Batches \cup {Nothing}]
        /\ alias \in [Addresses -> Ids \cup {Nothing}] /\ letters \subseteq Ids /\ leased \subseteq Ids
        /\ line \in [Batches -> Seq(Statuses)]
    BY DirectoryAssumption DEF ImportInv, DirectoryInv, DirectoryTyped, RestTyped
  <2>2. batch \in [Batches -> {"NONE", "PREVIEWED", "COMMITTED"}]
    BY DEF ImportInv, CountInv, BatchHeld
  <2>3. valid \in [Batches -> Nat] /\ duplicate \in [Batches -> Nat] /\ request \in [Clients -> Requests]
    BY DEF ImportInv, EnoughInv
  <2>4. registered \in BOOLEAN /\ owner \in Clients \cup {Nothing} /\ overlap \subseteq Batches /\ deaths \in Nat
    BY DEF ImportInv, RestTyped
  <2>. QED  BY <2>1, <2>2, <2>3, <2>4 DEF DirectoryTypeOK, Requests, Statuses
<1>. QED  BY ImportStart, ImportKept, <1>1, PTL DEF DirectorySpec

\* The counters of a batch are those of its rows, if no two sessions commit it at once.
THEOREM CountersHold == DirectorySpec => []CountersMatchRows
<1>1. ImportInv => CountersMatchRows
  BY DEF ImportInv, CountInv, BatchHeld, CountersMatchRows
<1>. QED  BY ImportStart, ImportKept, <1>1, PTL DEF DirectorySpec

\* What a batch says it has imported it has imported, and nothing before its commit.
THEOREM ImportsCounted == DirectorySpec => []ImportedAsCounted
<1>1. ImportInv => ImportedAsCounted
  <2>. SUFFICES ASSUME ImportInv, NEW b \in Batches \ overlap
                PROVE  Cardinality({id \in Ids : maker[id] = b}) = IF batch[b] = "COMMITTED" THEN valid[b] ELSE 0
    BY DEF ImportedAsCounted
  <2>1. BatchHeld(b)
    BY DEF ImportInv, CountInv
  <2>2. CASE batch[b] = "COMMITTED"
    BY <2>1, <2>2 DEF BatchHeld
  <2>3. CASE batch[b] # "COMMITTED"
    <3>1. {id \in Ids : maker[id] = b} = {}
      BY <2>1, <2>3 DEF BatchHeld
    <3>. QED  BY <2>3, <3>1, FS_EmptySet
  <2>. QED  BY <2>2, <2>3
<1>. QED  BY ImportStart, ImportKept, <1>1, PTL DEF DirectorySpec
=============================================================================
