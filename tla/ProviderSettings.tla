-------------------------- MODULE ProviderSettings --------------------------
(***************************************************************************)
(* The settings of a temporary mail provider.  The console shows a row     *)
(* with its secrets masked and sends the whole row back when the operator  *)
(* touches one field; update_provider() keeps what comes back masked.      *)
(***************************************************************************)
EXTENDS Integers, FiniteSets

CONSTANTS
  Operators,  \* browsers, and scripts that use the API
  Urls,       \* values of the fields that are not secret
  Secrets,    \* values of those that are
  Ranks,      \* priorities
  MaxSaves,   \* calls in this instance
  Absent      \* a key that is not there

MASK == "******"

ASSUME SettingsAssumption ==
  /\ Absent \notin Urls \cup Secrets /\ MASK \notin Urls \cup Secrets
  /\ Ranks \subseteq Int /\ MaxSaves \in Nat

VARIABLES
  setting, \* the row: enabled, priority, config_json
  exists,  \* whether there is one
  shown,   \* what each browser shows
  put,     \* PUT calls that have read the row, with the row they read
  typed,   \* history: the secret that was last entered
  mixed,   \* history: two calls have overlapped
  saves    \* history: calls so far

settingVars == <<setting, exists, shown, put, typed, mixed, saves>>

Row(enabled, priority, url, secret) ==
  [enabled |-> enabled, priority |-> priority, url |-> url, secret |-> secret]

NoRow == Row(FALSE, 100, Absent, Absent)
Put(op, body, old) == [op |-> op, body |-> body, old |-> old]
NoPut == Put("none", NoRow, NoRow)

\* _mask_config(), in _setting_out(): the defaults where there is no row.
Masked(row) == Row(row.enabled, row.priority, row.url, IF row.secret \in {Absent, ""} THEN row.secret ELSE MASK)

\* (mutant: what comes back masked is stored)
Overwritten(old, new) == IF new = Absent THEN old ELSE new

\* _merge_masked_config(), for one key: absent or masked means unchanged.
Merged(old, new) == IF new \in {Absent, MASK} THEN old ELSE new

MergedRow(old, body) ==
  Row(body.enabled, body.priority, Merged(old.url, body.url), Merged(old.secret, body.secret))

\* validate_config(), as that of custom_http: its URLs are needed.
Valid(row) == row.url \notin {Absent, ""}

HasConfig(row) == row.url # Absent \/ row.secret # Absent

Accepted(row) == row.enabled /\ HasConfig(row) => Valid(row)

\* dispatch_order(): the providers that temporary mailboxes may come from.
Dispatched == exists /\ setting.enabled /\ Valid(setting)

SettingsInit ==
  /\ setting = NoRow /\ exists = FALSE
  /\ shown = [o \in Operators |-> NoRow]
  /\ put = [o \in Operators |-> NoPut]
  /\ typed = Absent /\ mixed = FALSE /\ saves = 0

-----------------------------------------------------------------------------
\* The browser loads the list, or is given the row a PUT has stored.
Show(o) ==
  /\ shown' = [shown EXCEPT ![o] = Masked(setting)]
  /\ UNCHANGED <<setting, exists, put, typed, mixed, saves>>

\* What a browser sends: its row with another switch or priority.
FromConsole(o) ==
  LET r == shown[o] IN
  {Row(~r.enabled, r.priority, r.url, r.secret)}
    \cup {Row(r.enabled, rank, r.url, r.secret) : rank \in Ranks}

\* What a script sends; "" clears a field.
FromScript ==
  [enabled : BOOLEAN, priority : Ranks, url : Urls \cup {Absent, ""}, secret : Secrets \cup {Absent, ""}]

\* PUT reads the row ...
PutRead(o, body) ==
  /\ put[o] = NoPut /\ saves < MaxSaves
  /\ saves' = saves + 1
  /\ put' = [put EXCEPT ![o] = Put(IF exists THEN "update" ELSE "insert", body, setting)]
  /\ mixed' = (mixed \/ \E p \in Operators \ {o} : put[p] # NoPut)
  /\ UNCHANGED <<setting, exists, shown, typed>>

\* Two first calls: the second violates the unique name.
Duplicated(o) == put[o].op = "insert" /\ exists

\* ... and merges and stores it, the columns that differ from what was read.
PutWrite(o) ==
  LET old == put[o].old
      new == MergedRow(old, put[o].body)
      secret == put[o].body.secret
      config == <<new.url, new.secret>> # <<old.url, old.secret>> IN
  /\ put[o] # NoPut /\ Accepted(new) /\ ~Duplicated(o)
  /\ setting' = IF put[o].op = "insert" THEN new
                ELSE Row(IF new.enabled # old.enabled THEN new.enabled ELSE setting.enabled,
                         IF new.priority # old.priority THEN new.priority ELSE setting.priority,
                         IF config THEN new.url ELSE setting.url,
                         IF config THEN new.secret ELSE setting.secret)
  /\ exists' = TRUE
  /\ typed' = IF secret \in {Absent, MASK} THEN typed ELSE secret
  /\ put' = [put EXCEPT ![o] = NoPut]
  /\ UNCHANGED <<shown, mixed, saves>>

\* ... or answers 400 or 500.
PutRefused(o) ==
  /\ put[o] # NoPut
  /\ ~Accepted(MergedRow(put[o].old, put[o].body)) \/ Duplicated(o)
  /\ put' = [put EXCEPT ![o] = NoPut]
  /\ UNCHANGED <<setting, exists, shown, typed, mixed, saves>>

SettingsNext ==
  \E o \in Operators :
    \/ Show(o) \/ PutWrite(o) \/ PutRefused(o)
    \/ \E body \in FromConsole(o) \cup FromScript : PutRead(o, body)

SettingsSpec == SettingsInit /\ [][SettingsNext]_settingVars

\* Unless two calls have overlapped, the secret is the one that was last entered,
\* however many browsers have sent it back masked since, from however old a page;
\* and mailboxes come from a provider that is on exactly if it is configured.
\* (With two calls at once a secret, or a valid configuration, may be overwritten.)
SettingsHold ==
  ~mixed =>
    /\ setting.secret = typed
    /\ setting.enabled => (Dispatched <=> HasConfig(setting))
=============================================================================
